---------------------------- MODULE Spec2Model ----------------------------
(***************************************************************************)
(* Geometry-to-export pipeline of the site-plan editor: the geometry       *)
(* kernel (utils/geometry), the mesh exporter generateOBJ and the vector   *)
(* exporter generateDXF; and, in the last sections, the state machines of  *)
(* the drawing surface (DrawingCanvas) and of the application shell (App). *)
(*                                                                         *)
(* Numbers.  Pixel coordinates are integers.  The kernel's arithmetic on   *)
(* them (products, sums, comparisons) is exact in IEEE doubles for the     *)
(* magnitudes used here, so it is modelled with Integers; the two places   *)
(* where the code divides (1 / denominator in isPointInTriangle, x / f in  *)
(* getPolygonCentroid) are modelled by the sign rules of IEEE division,    *)
(* Infinity and NaN included.                                              *)
(***************************************************************************)
EXTENDS Integers, Sequences, FiniteSets, TLC

VARIABLES
    points,      \* triangulatePolygon: the input point array
    indices,     \* triangulatePolygon: the working index list
    triangles,   \* triangulatePolygon: the emitted index triples, flat
    iterations,  \* triangulatePolygon: the safety counter
    triPc,       \* the kernel's position: "loop" | "done", "call" | "returned", "off"
    result,      \* what calculatePolygonArea or getPolygonCentroid returned
    threw,       \* a TypeError was raised (a property read on undefined)
    scene,       \* the scene snapshot handed to the exporters
    pc,          \* the exporter's position: "idle", then "obj_..." or "dxf_..."
    pos,         \* the forEach index of the section being emitted
    out,         \* the lines emitted so far (obj or dxf of the code)
    vCount,      \* generateOBJ: the global vertex counter
    returned,    \* the caller's copies of the strings earlier calls returned
    canvas,      \* DrawingCanvas: the component's state (its useState values)
    app          \* App: the component's state and the requests in flight

triVars == <<points, indices, triangles, iterations, triPc, result>>
expVars == <<scene, pc, pos, out, vCount, returned>>
uiVars == <<canvas, app>>
vars ==
    <<points, indices, triangles, iterations, triPc, result, threw, scene, pc, pos, out, vCount,
      returned, canvas, app>>

---------------------------------------------------------------------------
(* Bounds of the model. *)

\* largest pixel coordinate of a point handed to triangulatePolygon; the
\* coordinates used are 0, 1 and MaxCoord
MaxCoord == 2
\* longest point sequence handed to triangulatePolygon
MaxN == 4
\* most points of a boundary, a zone or a road of a scene
MaxPts == 4
\* most zones, roads and elevation markers of a scene, together
MaxItems == 2
\* side of the square site in pixels, which is also the canvas height
SquareSide == 10

---------------------------------------------------------------------------
(* Points and arrays.  A JavaScript array is a sequence; the code's        *)
(* 0-based index i is position i + 1.                                      *)

Pt(px, py) == [x |-> px, y |-> py]

\* points[i] of the code: the element, or "undefined" outside the array
At(arr, i) == IF i \in 0 .. (Len(arr) - 1) THEN arr[i + 1] ELSE "undefined"

Abs(n) == IF n < 0 THEN -n ELSE n

\* indices.splice(i, 0): nothing is removed
SpliceNothing(arr, i) == arr

\* indices.splice(i + 1, 1): the vertex after the ear is removed
SpliceNext(arr, i) ==
    LET r == IF i + 1 >= Len(arr) THEN 0 ELSE i + 1
    IN  [m \in 1 .. (Len(arr) - 1) |-> IF m <= r THEN arr[m] ELSE arr[m + 1]]

\* indices.splice(i, 1)
Splice(arr, i) == [k \in 1 .. (Len(arr) - 1) |-> IF k <= i THEN arr[k] ELSE arr[k + 1]]

---------------------------------------------------------------------------
(* calculatePolygonArea.  The code returns Math.abs(area / 2); Area2 is    *)
(* the value before the halving, so that it stays an integer.              *)

RECURSIVE ShoelaceSum(_, _)
ShoelaceSum(pts, i) ==
    IF i >= Len(pts) THEN 0
    ELSE LET j == (i + 1) % Len(pts)
         IN  At(pts, i).x * At(pts, j).y - At(pts, j).x * At(pts, i).y
             + ShoelaceSum(pts, i + 1)

\* twice the area without Math.abs: the signed shoelace sum
SignedPolygonArea2(pts) ==
    IF Len(pts) < 3 THEN 0 ELSE ShoelaceSum(pts, 0)

\* twice calculatePolygonArea(points)
CalculatePolygonArea2(pts) ==
    IF Len(pts) < 3 THEN 0 ELSE Abs(ShoelaceSum(pts, 0))

---------------------------------------------------------------------------
(* isPointInTriangle.  u = numU * invDenom and v = numV * invDenom with    *)
(* invDenom = 1 / denom.  For denom = 0 (a degenerate triangle) invDenom   *)
(* is Infinity and u, v are NaN (numerator 0) or +-Infinity.               *)

\* sign class of n * (1 / d): "nan", "neg", "zero", "pos" (d = 0 gives an infinity or NaN)
TimesInv(n, d) ==
    IF d = 0 THEN (IF n = 0 THEN "nan" ELSE IF n > 0 THEN "posinf" ELSE "neginf")
    ELSE IF n = 0 THEN "zero"
    ELSE IF (n > 0) = (d > 0) THEN "pos" ELSE "neg"

\* the test with (u > 0) && (v > 0) && (u + v < 1): the open triangle
IsPointInTriangleStrict(p, a, b, c) ==
    LET v0x == c.x - a.x
        v0y == c.y - a.y
        v1x == b.x - a.x
        v1y == b.y - a.y
        v2x == p.x - a.x
        v2y == p.y - a.y
        dot00 == v0x * v0x + v0y * v0y
        dot01 == v0x * v1x + v0y * v1y
        dot02 == v0x * v2x + v0y * v2y
        dot11 == v1x * v1x + v1y * v1y
        dot12 == v1x * v2x + v1y * v2y
        denom == dot00 * dot11 - dot01 * dot01
        numU  == dot11 * dot02 - dot01 * dot12
        numV  == dot00 * dot12 - dot01 * dot02
        u == TimesInv(numU, denom)
        v == TimesInv(numV, denom)
        sumLt1 == IF denom = 0 THEN FALSE
                  ELSE IF denom > 0 THEN numU + numV < denom
                  ELSE numU + numV > denom
    IN  u \in {"pos", "posinf"} /\ v \in {"pos", "posinf"} /\ sumLt1

IsPointInTriangle(p, a, b, c) ==
    LET v0x == c.x - a.x
        v0y == c.y - a.y
        v1x == b.x - a.x
        v1y == b.y - a.y
        v2x == p.x - a.x
        v2y == p.y - a.y
        dot00 == v0x * v0x + v0y * v0y
        dot01 == v0x * v1x + v0y * v1y
        dot02 == v0x * v2x + v0y * v2y
        dot11 == v1x * v1x + v1y * v1y
        dot12 == v1x * v2x + v1y * v2y
        denom == dot00 * dot11 - dot01 * dot01
        numU  == dot11 * dot02 - dot01 * dot12
        numV  == dot00 * dot12 - dot01 * dot02
        u == TimesInv(numU, denom)
        v == TimesInv(numV, denom)
        uGe0 == u \in {"zero", "pos", "posinf"}
        vGe0 == v \in {"zero", "pos", "posinf"}
        \* u + v < 1: false when either is NaN or the sum is +Infinity
        sumLt1 == IF denom = 0 THEN u = "neginf" /\ v = "neginf"
                  ELSE IF denom > 0 THEN numU + numV < denom
                  ELSE numU + numV > denom
    IN  uGe0 /\ vGe0 /\ sumLt1

---------------------------------------------------------------------------
(* triangulatePolygon: one pass of the while loop, then the whole call.    *)

\* the ear test with the cross product used: if (cross > 0) continue
IsEarUnlessReflex(pts, idx, i) ==
    LET n    == Len(idx)
        pi   == (i - 1 + n) % n
        ni   == (i + 1) % n
        prev == At(pts, At(idx, pi))
        curr == At(pts, At(idx, i))
        next == At(pts, At(idx, ni))
        cross == (curr.x - prev.x) * (next.y - curr.y) - (curr.y - prev.y) * (next.x - curr.x)
    IN  /\ cross <= 0
        /\ \A j \in 0 .. (n - 1) :
              (j = i \/ j = pi \/ j = ni)
              \/ ~IsPointInTriangle(At(pts, At(idx, j)), prev, curr, next)

\* the inner for-j loop: no other listed vertex is inside (prev, curr, next)
IsEar(pts, idx, i) ==
    LET n    == Len(idx)
        pi   == (i - 1 + n) % n
        ni   == (i + 1) % n
        prev == At(pts, At(idx, pi))
        curr == At(pts, At(idx, i))
        next == At(pts, At(idx, ni))
    IN  \A j \in 0 .. (n - 1) :
            (j = i \/ j = pi \/ j = ni)
            \/ ~IsPointInTriangle(At(pts, At(idx, j)), prev, curr, next)

\* the for-i loop: the first position that is an ear, or -1
RECURSIVE EarScan(_, _, _)
EarScan(pts, idx, i) ==
    IF i >= Len(idx) THEN -1
    ELSE IF IsEar(pts, idx, i) THEN i
    ELSE EarScan(pts, idx, i + 1)

\* the triple pushed for the ear at position i
EarTriangle(idx, i) ==
    LET n == Len(idx)
    IN  <<At(idx, (i - 1 + n) % n), At(idx, i), At(idx, (i + 1) % n)>>

\* points.map((_, i) => i + 1): 1-based indices
InitIndicesOneBased(pts) == [m \in 1 .. Len(pts) |-> m]

\* const indices = points.map((_, i) => i)
InitIndices(pts) == [k \in 1 .. Len(pts) |-> k - 1]

\* const maxIterations = points.length / 3, rounded down
MaxIterationsThird(pts) == Len(pts) \div 3

\* const maxIterations = points.length * 3
MaxIterations(pts) == Len(pts) * 3

\* while (indices.length > 3 && iterations < maxIterations)
LoopCond(pts, idx, it) == Len(idx) > 3 /\ it < MaxIterations(pts)

\* a read points[indices[k]].x of the pass hits undefined
PassThrows(pts, idx) == \E k \in 1 .. Len(idx) : idx[k] \notin 0 .. (Len(pts) - 1)

\* if (indices.length === 3) triangles.push(indices[0], indices[1], indices[2])
TailTriangles(idx, tris) ==
    IF Len(idx) = 3 THEN tris \o <<idx[1], idx[2], idx[3]>> ELSE tris

\* the whole call: the returned array, and whether a TypeError ended the call
RECURSIVE TriLoop(_, _, _, _)
TriLoop(pts, idx, tris, it) ==
    IF LoopCond(pts, idx, it)
    THEN IF PassThrows(pts, idx) THEN [triangles |-> tris, threw |-> TRUE]
         ELSE LET e == EarScan(pts, idx, 0)
              IN  IF e = -1 THEN [triangles |-> TailTriangles(idx, tris), threw |-> FALSE]
                  ELSE TriLoop(pts, Splice(idx, e), tris \o EarTriangle(idx, e), it + 1)
    ELSE [triangles |-> TailTriangles(idx, tris), threw |-> FALSE]

\* triangulatePolygon(points): the flat array of index triples
TriangulatePolygon(pts) == TriLoop(pts, InitIndices(pts), <<>>, 0).triangles

\* triangulatePolygon(points) raises a TypeError
TriangulateThrows(pts) == TriLoop(pts, InitIndices(pts), <<>>, 0).threw

---------------------------------------------------------------------------
(* JavaScript numbers that are not pixel integers: a rational n / d with   *)
(* d > 0, or NaN (0 / 0), Infinity (1 / 0), -Infinity (-1 / 0).            *)

R(num, den) == [n |-> num, d |-> den]

NaN == R(0, 0)

Sign(i) == IF i > 0 THEN 1 ELSE IF i < 0 THEN -1 ELSE 0

Pow10(e) == IF e = 0 THEN 1 ELSE IF e = 1 THEN 10 ELSE IF e = 2 THEN 100 ELSE 1000

\* a * b
Mul(a, b) ==
    IF a.d * b.d = 0 THEN R(Sign(a.n * b.n), 0) ELSE R(a.n * b.n, a.d * b.d)

\* a + b
Add(a, b) ==
    IF a = NaN \/ b = NaN THEN NaN
    ELSE IF a.d = 0 /\ b.d = 0 THEN (IF a.n = b.n THEN a ELSE NaN)
    ELSE IF a.d = 0 THEN a
    ELSE IF b.d = 0 THEN b
    ELSE R(a.n * b.d + b.n * a.d, a.d * b.d)

\* a - b
Sub(a, b) == Add(a, R(-b.n, b.d))

\* f === 0 ? 0 : x / f: the division guarded
DivGuarded(x, f) ==
    IF f = 0 THEN R(0, 1) ELSE IF f < 0 THEN R(-x, -f) ELSE R(x, f)

\* x / f for integers x and f
Div(x, f) ==
    IF f = 0 THEN R(Sign(x), 0) ELSE IF f < 0 THEN R(-x, -f) ELSE R(x, f)

\* n.toFixed(digits): the text, as its sign and its digits read as an integer
\* (1.5.toFixed(3) is "1.500": mag 1500), or the text of a non-finite number.
\* toFixed rounds the magnitude to the nearest, the larger on a tie.
ToFixed(a, digits) ==
    IF a.d = 0
    THEN [s |-> IF a.n = 0 THEN "NaN" ELSE IF a.n > 0 THEN "Infinity" ELSE "-Infinity",
          neg |-> FALSE, mag |-> 0]
    ELSE [s |-> "fin", neg |-> a.n < 0,
          mag |-> (2 * Abs(a.n) * Pow10(digits) + a.d) \div (2 * a.d)]

---------------------------------------------------------------------------
(* getPolygonCentroid *)

RECURSIVE CentroidSum(_, _, _)
CentroidSum(pts, i, c) ==
    IF i >= Len(pts) THEN 0
    ELSE LET j == (i + 1) % Len(pts)
             f == At(pts, i).x * At(pts, j).y - At(pts, j).x * At(pts, i).y
             t == IF c = "x" THEN (At(pts, i).x + At(pts, j).x) * f
                  ELSE (At(pts, i).y + At(pts, j).y) * f
         IN  t + CentroidSum(pts, i + 1, c)

\* const f = area * 6
CentroidDivisorSix(area) == area * 6

\* const f = area * 3
CentroidDivisor(area) == area * 3

GetPolygonCentroid(pts) ==
    IF Len(pts) = 0 THEN [x |-> R(0, 1), y |-> R(0, 1)]
    ELSE LET f == CentroidDivisor(ShoelaceSum(pts, 0))
         IN  [x |-> Div(CentroidSum(pts, 0, "x"), f),
              y |-> Div(CentroidSum(pts, 0, "y"), f)]

---------------------------------------------------------------------------
(* The scene snapshot: boundary, zones, roads, elevations, canvas height   *)
(* and pixel-to-meter scale.                                               *)

ZoneTypes == {"WATER", "GREENERY", "PAVING", "STRUCTURE"}

\* the enum's string, as its words: "<chinese name> (<english name>)"
ZoneTypeString(t) ==
    CASE t = "WATER" -> <<"ShuiTi", "(Water)">>
      [] t = "GREENERY" -> <<"LvDi", "(Greenery)">>
      [] t = "PAVING" -> <<"YingZhiGuangChang", "(Plaza)">>
      [] t = "STRUCTURE" -> <<"JianZhu/GouZhuWu", "(Structure)">>

\* zone.type.split(' ')[0]
ShortName(t) == ZoneTypeString(t)[1]

\* the corners of the square site, then a point on its last edge and a point
\* inside it: the first n of them are a segment, a triangle, the square, the
\* square with a collinear vertex, a polygon with a reflex vertex
OutlinePath ==
    <<Pt(0, 0), Pt(SquareSide, 0), Pt(SquareSide, SquareSide), Pt(0, SquareSide),
      Pt(0, SquareSide \div 2), Pt(SquareSide \div 2, SquareSide \div 2)>>

Shape(n) == SubSeq(OutlinePath, 1, n)

\* three collinear points: a polygon of zero area
Line3 == <<Pt(0, 0), Pt(SquareSide \div 2, 0), Pt(SquareSide, 0)>>

Boundaries == {Shape(n) : n \in 0 .. MaxPts} \cup {Line3}

ZoneOptions ==
    {[points |-> p, type |-> t] : p \in {Shape(2), Shape(MaxPts), Line3}, t \in ZoneTypes}

RoadOptions == {[points |-> p] : p \in {Shape(1), Shape(2), Shape(MaxPts)}}

ElevationOptions ==
    {[x |-> SquareSide \div 2, y |-> 1, value |-> v] : v \in {R(11, 2), R(-5, 4)}}

\* pixelToMeterScale: siteWidthMeters / canvas width
Scales == {R(1, 10)}

---------------------------------------------------------------------------
(* generateOBJ.  A line of the output is a record: its keyword t, its      *)
(* arguments a, and el, the element that emitted it (which the text does   *)
(* not show).                                                              *)

Line(t, a, el) == [t |-> t, a |-> a, el |-> el]

\* to3D(p, z) with x, y, z formatted by toFixed(3)
To3D(p, z, sc) ==
    [x |-> Mul(R(p.x, 1), sc.scale),
     y |-> Mul(Sub(R(sc.height, 1), R(p.y, 1)), sc.scale),
     z |-> z]

\* `v ${v.x.toFixed(3)} ${v.y.toFixed(3)} ${v.z.toFixed(3)}`
VLine(v, el) == Line("v", <<ToFixed(v.x, 3), ToFixed(v.y, 3), ToFixed(v.z, 3)>>, el)

\* the points of a ring taken last to first
RingReversed(pts, z, sc, el) ==
    [i \in 1 .. Len(pts) |-> VLine(To3D(pts[Len(pts) + 1 - i], z, sc), el)]

\* pts.forEach(p => obj += v line of to3D(p, z))
Ring(pts, z, sc, el) == [i \in 1 .. Len(pts) |-> VLine(To3D(pts[i], z, sc), el)]

\* the cap faces: for (i = 0; i < tris.length; i += 3) f base+tris[i] ...
RECURSIVE FaceLines(_, _, _, _)
FaceLines(tris, i, base, el) ==
    IF i >= Len(tris) THEN <<>>
    ELSE <<Line("f", <<base + At(tris, i), base + At(tris, i + 1), base + At(tris, i + 2)>>, el)>>
         \o FaceLines(tris, i + 3, base, el)

\* const next = i + 1, without the wrap-around, the last edge left out
RECURSIVE WallLinesOpen(_, _, _, _)
WallLinesOpen(len, i, startIndex, el) ==
    IF i + 1 >= len THEN <<>>
    ELSE LET next == i + 1
             b1 == startIndex + i
             b2 == startIndex + next
             t1 == startIndex + len + i
             t2 == startIndex + len + next
         IN  <<Line("f", <<b1, b2, t2>>, el), Line("f", <<b1, t2, t1>>, el)>>
             \o WallLinesOpen(len, i + 1, startIndex, el)

\* the walls: two triangles per edge of the ring
RECURSIVE WallLines(_, _, _, _)
WallLines(len, i, startIndex, el) ==
    IF i >= len THEN <<>>
    ELSE LET next == (i + 1) % len
             b1 == startIndex + i
             b2 == startIndex + next
             t1 == startIndex + len + i
             t2 == startIndex + len + next
         IN  <<Line("f", <<b1, b2, t2>>, el), Line("f", <<b1, t2, t1>>, el)>>
             \o WallLines(len, i + 1, startIndex, el)

\* the header, the ground group, the boundary's vertices and faces
ObjGroundLines(sc, vc) ==
    <<Line("#", <<"LandscapeGenie Pro 3D Export">>, <<"doc", 0>>),
      Line("mtllib", <<"landscape.mtl">>, <<"doc", 0>>),
      Line("o", <<"SiteModel">>, <<"doc", 0>>),
      Line("g", <<"Site_Ground">>, <<"ground", 0>>),
      Line("usemtl", <<"Material_Grass">>, <<"ground", 0>>)>>
    \o Ring(sc.boundary, R(0, 1), sc, <<"ground", 0>>)
    \o FaceLines(TriangulatePolygon(sc.boundary), 0, vc, <<"ground", 0>>)

\* const zBase = baseHeight, for water too
ZBaseNotSunken(type) == R(1, 20)

\* const zBase = isWater ? -0.5 : baseHeight
ZBase(type) == IF type = "WATER" THEN R(-1, 2) ELSE R(1, 20)

\* const extrudeHeight = 0.0, for a building too
ExtrudeHeightFlat(type) == R(0, 1)

\* const extrudeHeight = isBuilding ? 6.0 : 0.0
ExtrudeHeight(type) == IF type = "STRUCTURE" THEN R(6, 1) ELSE R(0, 1)

\* if (zone.points.length < 2) return
ZoneSkippedBelow2(zone) == Len(zone.points) < 2

\* if (zone.points.length < 3) return
ZoneSkipped(zone) == Len(zone.points) < 3

\* const startIndex = vCount, read after the bottom ring's vCount += length
ZoneStartIndexLate(zone, vc) == vc + Len(zone.points)

\* const startIndex = vCount, read before vCount += zone.points.length
ZoneStartIndex(zone, vc) == vc

\* the lines of one zone with at least 3 points; vc is vCount on entry
ObjZoneLines(zone, idx, sc, vc) ==
    LET isBuilding == zone.type = "STRUCTURE"
        zBase == ZBase(zone.type)
        zTop == Add(zBase, ExtrudeHeight(zone.type))
        el == <<"zone", idx>>
        groupName == IF isBuilding THEN <<"Building", idx>>
                     ELSE <<"Zone", idx, ShortName(zone.type)>>
        startIndex == ZoneStartIndex(zone, vc)
        len == Len(zone.points)
        zoneTris == TriangulatePolygon(zone.points)
    IN  <<Line("g", groupName, el)>>
        \o Ring(zone.points, zBase, sc, el)
        \o (IF isBuilding THEN Ring(zone.points, zTop, sc, el) ELSE <<>>)
        \o (IF isBuilding THEN FaceLines(zoneTris, 0, startIndex + len, el)
            ELSE FaceLines(zoneTris, 0, startIndex, el))
        \o (IF isBuilding THEN WallLines(len, 0, startIndex, el) ELSE <<>>)

\* vCount after a zone, the top ring not counted
ObjZoneCountBottomOnly(zone, vc) == vc + Len(zone.points)

\* vCount after a zone with at least 3 points
ObjZoneCount(zone, vc) ==
    IF zone.type = "STRUCTURE" THEN vc + Len(zone.points) + Len(zone.points)
    ELSE vc + Len(zone.points)

\* the lines of one road with at least 2 points
ObjRoadLines(road, idx, sc, vc) ==
    Ring(road.points, R(2, 25), sc, <<"road", idx>>)
    \o <<Line("l", [i \in 1 .. Len(road.points) |-> vc + (i - 1)], <<"road", idx>>)>>

\* a pyramid one unit in half-size
PyramidSizeUnit == R(1, 1)

\* const size = 0.5
PyramidSize == R(1, 2)

\* the pyramid of one elevation marker
ObjElevationLines(ep, idx, sc, vc) ==
    LET p == To3D(ep, ep.value, sc)
        size == PyramidSize
        el == <<"elev", idx>>
        t == vc
    IN  <<VLine(p, el),
          VLine([x |-> Sub(p.x, size), y |-> Sub(p.y, size), z |-> Sub(p.z, size)], el),
          VLine([x |-> Add(p.x, size), y |-> Sub(p.y, size), z |-> Sub(p.z, size)], el),
          VLine([x |-> Add(p.x, size), y |-> Add(p.y, size), z |-> Sub(p.z, size)], el),
          VLine([x |-> Sub(p.x, size), y |-> Add(p.y, size), z |-> Sub(p.z, size)], el),
          Line("f", <<t, t + 1, t + 2>>, el),
          Line("f", <<t, t + 2, t + 3>>, el),
          Line("f", <<t, t + 3, t + 4>>, el),
          Line("f", <<t, t + 4, t + 1>>, el)>>

---------------------------------------------------------------------------
(* The inputs of triangulatePolygon: every point sequence of at most MaxN  *)
(* points on the grid, duplicates and collinear points included.           *)

Coords == {0, 1, MaxCoord}

Grid == {Pt(px, py) : px \in Coords, py \in Coords}

\* a point array traversed twice (a malformed, non-simple polygon)
TwiceAround == {s \o s : s \in [1 .. 3 -> Grid]}

\* no exporter has returned anything yet (no output is empty)
NoResults == [obj |-> <<>>, dxf |-> <<>>]

\* the exporters are not running
ExportOff ==
    /\ scene = <<>>
    /\ pc = "off"
    /\ pos = 0
    /\ out = <<>>
    /\ vCount = 0
    /\ returned = NoResults

\* the components are not mounted
UiOff == canvas = <<>> /\ app = <<>>

\* neither calculatePolygonArea nor getPolygonCentroid has returned
NoResult == [op |-> "none"]

InitTri ==
    /\ \/ \E n \in 0 .. MaxN : points \in [1 .. n -> Grid]
       \/ points \in TwiceAround
    /\ indices = InitIndices(points)
    /\ triangles = <<>>
    /\ iterations = 0
    /\ triPc = "loop"
    /\ result = NoResult
    /\ threw = FALSE
    /\ ExportOff
    /\ UiOff

\* the pass that clips an ear, with const indices = points in place of
\* points.map: the splice then shortens the caller's array
TriClipEarInPlace ==
    /\ triPc = "loop"
    /\ LoopCond(points, indices, iterations)
    /\ ~PassThrows(points, indices)
    /\ EarScan(points, indices, 0) # -1
    /\ LET e == EarScan(points, indices, 0)
       IN  /\ triangles' = triangles \o EarTriangle(indices, e)
           /\ indices' = Splice(indices, e)
           /\ points' = Splice(points, e)
    /\ iterations' = iterations + 1
    /\ UNCHANGED <<triPc, threw, result, expVars, uiVars>>

\* a pass of the while loop that finds an ear and clips it; a pass that reads
\* points[indices[j]].x for an index outside the array raises a TypeError,
\* which ends the call
TriClipEar ==
    /\ triPc = "loop"
    /\ LoopCond(points, indices, iterations)
    /\ IF PassThrows(points, indices)
       THEN /\ threw' = TRUE
            /\ triPc' = "done"
            /\ UNCHANGED <<indices, triangles, iterations>>
       ELSE /\ EarScan(points, indices, 0) # -1
            /\ LET e == EarScan(points, indices, 0)
               IN  /\ triangles' = triangles \o EarTriangle(indices, e)
                   /\ indices' = Splice(indices, e)
            /\ iterations' = iterations + 1
            /\ UNCHANGED <<triPc, threw>>
    /\ UNCHANGED <<points, result, expVars, uiVars>>

\* a pass of the while loop that finds no ear: if (!earFound) break, then
\* the remaining-triangle test and the return
TriNoEar ==
    /\ triPc = "loop"
    /\ LoopCond(points, indices, iterations)
    /\ ~PassThrows(points, indices)
    /\ EarScan(points, indices, 0) = -1
    /\ iterations' = iterations + 1
    /\ triangles' = TailTriangles(indices, triangles)
    /\ triPc' = "done"
    /\ UNCHANGED <<points, indices, result, threw, expVars, uiVars>>

\* the loop condition fails: the remaining-triangle test and the return
TriReturn ==
    /\ triPc = "loop"
    /\ ~LoopCond(points, indices, iterations)
    /\ triangles' = TailTriangles(indices, triangles)
    /\ triPc' = "done"
    /\ UNCHANGED <<points, indices, iterations, result, threw, expVars, uiVars>>

NextTri == TriClipEar \/ TriNoEar \/ TriReturn

SpecTri == InitTri /\ [][NextTri]_vars

---------------------------------------------------------------------------
(* calculatePolygonArea and getPolygonCentroid, each called once on a      *)
(* point array.                                                            *)

\* calculatePolygonArea(points): Math.abs(area / 2)
CalculatePolygonArea(pts) == R(CalculatePolygonArea2(pts), 2)

InitKernel ==
    /\ \E n \in 0 .. MaxN : points \in [1 .. n -> Grid]
    /\ indices = <<>>
    /\ triangles = <<>>
    /\ iterations = 0
    /\ triPc = "call"
    /\ result = NoResult
    /\ threw = FALSE
    /\ ExportOff
    /\ UiOff

\* calculatePolygonArea(points) is called and returns
AreaCall ==
    /\ triPc = "call"
    /\ result' = [op |-> "area", value |-> CalculatePolygonArea(points)]
    /\ triPc' = "returned"
    /\ UNCHANGED <<points, indices, triangles, iterations, threw, expVars, uiVars>>

\* getPolygonCentroid(points) is called and returns
CentroidCall ==
    /\ triPc = "call"
    /\ result' = [op |-> "centroid", value |-> GetPolygonCentroid(points)]
    /\ triPc' = "returned"
    /\ UNCHANGED <<points, indices, triangles, iterations, threw, expVars, uiVars>>

NextKernel == AreaCall \/ CentroidCall

SpecKernel == InitKernel /\ [][NextKernel]_vars

---------------------------------------------------------------------------
(* generateDXF.  The output is a sequence of group-code pairs: a code line *)
(* c and the value line v after it, with el, the entity that emitted it.   *)

G(code, value, el) == [c |-> code, v |-> value, el |-> el]

\* toCad without the flip: y: p.y * pixelToMeterScale
ToCadNoFlip(px, py, z, sc) ==
    [x |-> Mul(px, sc.scale), y |-> Mul(py, sc.scale), z |-> z]

\* toCad(p, z): meters, Y flipped; px, py are numbers
ToCad(px, py, z, sc) ==
    [x |-> Mul(px, sc.scale),
     y |-> Mul(Sub(R(sc.height, 1), py), sc.scale),
     z |-> z]

\* toCad of a pixel point
ToCadPoint(p, z, sc) == ToCad(R(p.x, 1), R(p.y, 1), z, sc)

FormatFloat(a) == ToFixed(a, 3)

Doc == <<"doc", 0>>

Layer(name, color, style) ==
    <<G("0", "LAYER", Doc), G("2", name, Doc), G("70", "0", Doc), G("62", color, Doc),
      G("6", style, Doc)>>

\* lines 25-45: the HEADER section, the layer table, the start of ENTITIES
DxfHeader ==
    <<G("0", "SECTION", Doc), G("2", "HEADER", Doc), G("9", "$INSUNITS", Doc),
      G("70", "6", Doc), G("0", "ENDSEC", Doc),
      G("0", "SECTION", Doc), G("2", "TABLES", Doc),
      G("0", "TABLE", Doc), G("2", "LAYER", Doc), G("70", "8", Doc)>>
    \o Layer("SITE_BOUNDARY", "7", "CONTINUOUS")
    \o Layer("ROADS_CENTERLINE", "1", "DASHDOT")
    \o Layer("FUNCTION_ZONES", "5", "CONTINUOUS")
    \o Layer("ELEVATIONS", "3", "CONTINUOUS")
    \o Layer("DIMENSIONS", "8", "CONTINUOUS")
    \o Layer("ANNOTATIONS", "4", "CONTINUOUS")
    \o Layer("TEXT", "2", "CONTINUOUS")
    \o <<G("0", "ENDTAB", Doc), G("0", "ENDSEC", Doc),
         G("0", "SECTION", Doc), G("2", "ENTITIES", Doc)>>

\* pts.forEach(p => dxf += `10\n${x}\n20\n${y}\n`)
RECURSIVE CoordPairs(_, _, _, _)
CoordPairs(pts, i, sc, el) ==
    IF i >= Len(pts) THEN <<>>
    ELSE LET cadP == ToCadPoint(At(pts, i), R(0, 1), sc)
         IN  <<G("10", FormatFloat(cadP.x), el), G("20", FormatFloat(cadP.y), el)>>
             \o CoordPairs(pts, i + 1, sc, el)

\* pts.length.toString() + 1: the closing vertex counted too
DeclaredCountClosing(pts) == ToString(Len(pts) + 1)

\* the "90" value of a polyline: pts.length.toString()
DeclaredCount(pts) == ToString(Len(pts))

\* an LWPOLYLINE entity on a layer, closed (flag "1") or open (flag "0")
Polyline(pts, layer, flag, sc, el) ==
    <<G("0", "LWPOLYLINE", el), G("8", layer, el), G("90", DeclaredCount(pts), el),
      G("70", flag, el), G("38", "0.0", el)>>
    \o CoordPairs(pts, 0, sc, el)

\* if (boundary.length > 2): the boundary polyline only for a polygon
HasBoundaryPolylineStrict(sc) == Len(sc.boundary) > 2

\* if (boundary.length > 0)
HasBoundaryPolyline(sc) == Len(sc.boundary) > 0

\* lines 48-60: the boundary polyline
DxfBoundaryLines(sc) ==
    IF HasBoundaryPolyline(sc)
    THEN Polyline(sc.boundary, "SITE_BOUNDARY", "1", sc, <<"boundary", 0>>)
    ELSE <<>>

\* a zone's polyline, the label left out
DxfZoneLinesNoLabel(zone, idx, sc) ==
    Polyline(zone.points, "FUNCTION_ZONES", "1", sc, <<"zone", idx>>)

\* lines 81-102: a zone's polyline and its label at the centroid
DxfZoneLines(zone, idx, sc) ==
    LET centroid == GetPolygonCentroid(zone.points)
        cadC == ToCad(centroid.x, centroid.y, R(0, 1), sc)
        label == ShortName(zone.type)
        el == <<"zone", idx>>
    IN  Polyline(zone.points, "FUNCTION_ZONES", "1", sc, el)
        \o <<G("0", "TEXT", el), G("8", "TEXT", el),
             G("10", FormatFloat(cadC.x), el), G("20", FormatFloat(cadC.y), el),
             G("40", FormatFloat(R(4, 5)), el), G("1", label, el),
             G("72", "1", el), G("11", FormatFloat(cadC.x), el),
             G("21", FormatFloat(cadC.y), el)>>

\* lines 106-117: an elevation marker's point and its label
DxfElevationLines(ep, idx, sc) ==
    LET cadP == ToCadPoint(ep, ep.value, sc)
        el == <<"elev", idx>>
    IN  <<G("0", "POINT", el), G("8", "ELEVATIONS", el),
          G("10", FormatFloat(cadP.x), el), G("20", FormatFloat(cadP.y), el),
          G("30", FormatFloat(cadP.z), el),
          G("0", "TEXT", el), G("8", "TEXT", el),
          G("10", FormatFloat(Add(cadP.x, R(1, 5))), el),
          G("20", FormatFloat(Add(cadP.y, R(1, 5))), el),
          G("30", FormatFloat(cadP.z), el),
          G("40", FormatFloat(R(3, 10)), el),
          G("1", <<"EL: +", ToFixed(ep.value, 2)>>, el),
          G("50", "0", el)>>

\* calculatePolygonArea(boundary) * pixelToMeterScale: the scale not squared
AreaM2Linear(sc) == Mul(R(CalculatePolygonArea2(sc.boundary), 2), sc.scale)

\* calculatePolygonArea(boundary) * Math.pow(pixelToMeterScale, 2)
AreaM2(sc) == Mul(R(CalculatePolygonArea2(sc.boundary), 2), Mul(sc.scale, sc.scale))

\* if (boundary.length > 2)
HasAreaAnnotation(sc) == Len(sc.boundary) > 2

\* lines 121-132: the area annotation at the boundary's centroid
DxfAreaLines(sc) ==
    IF HasAreaAnnotation(sc)
    THEN LET centroid == GetPolygonCentroid(sc.boundary)
             cadCentroid == ToCad(centroid.x, centroid.y, R(0, 1), sc)
             el == <<"area", 0>>
         IN  <<G("0", "TEXT", el), G("8", "ANNOTATIONS", el),
               G("10", FormatFloat(cadCentroid.x), el),
               G("20", FormatFloat(cadCentroid.y), el),
               G("40", FormatFloat(R(6, 5)), el),
               G("1", <<"AREA: ", ToFixed(AreaM2(sc), 1), " m^2">>, el),
               G("72", "1", el),
               G("11", FormatFloat(cadCentroid.x), el),
               G("21", FormatFloat(cadCentroid.y), el)>>
    ELSE <<>>

\* dxf += "0\nENDSEC\n": the end-of-file marker left out
DxfFooterNoEof == <<G("0", "ENDSEC", Doc)>>

\* dxf += "0\nENDSEC\n0\nEOF"
DxfFooter == <<G("0", "ENDSEC", Doc), G("0", "EOF", Doc)>>

---------------------------------------------------------------------------
(* The exporters.  A scene is chosen, then generateOBJ or generateDXF is   *)
(* called on it and runs to its return, one section or forEach element     *)
(* per step.                                                               *)

TriOff ==
    /\ points = <<>>
    /\ indices = <<>>
    /\ triangles = <<>>
    /\ iterations = 0
    /\ triPc = "off"
    /\ result = NoResult

\* vCount is not declared anew: a later call goes on from the last value
CarriedVCount(old) == IF old = 0 THEN 1 ELSE old

\* let vCount = 1, whatever an earlier call left
FreshVCount(old) == 1

InitExport ==
    /\ \E nz \in 0 .. MaxItems : \E nr \in 0 .. (MaxItems - nz) :
       \E ne \in 0 .. (MaxItems - nz - nr) :
       \E b \in Boundaries, sc \in Scales,
          z \in [1 .. nz -> ZoneOptions],
          r \in [1 .. nr -> RoadOptions],
          e \in [1 .. ne -> ElevationOptions] :
            scene = [boundary |-> b, zones |-> z, roads |-> r, elevations |-> e,
                     height |-> SquareSide, scale |-> sc]
    /\ pc = "idle"
    /\ pos = 0
    /\ out = <<>>
    /\ vCount = 0
    /\ threw = FALSE
    /\ returned = NoResults
    /\ TriOff
    /\ UiOff

\* generateOBJ is called: lines 93-127, the header and the ground plane
ObjGround ==
    /\ pc = "idle"
    /\ IF TriangulateThrows(scene.boundary)
       THEN /\ threw' = TRUE
            /\ pc' = "obj_threw"
            /\ UNCHANGED <<out, vCount, pos>>
       ELSE /\ out' = ObjGroundLines(scene, FreshVCount(vCount))
            /\ vCount' = FreshVCount(vCount) + Len(scene.boundary)
            /\ pc' = "obj_zones"
            /\ pos' = 0
            /\ UNCHANGED threw
    /\ UNCHANGED <<scene, triVars, returned, uiVars>>

\* zones.forEach: a zone with at least 3 points
ObjZone ==
    /\ pc = "obj_zones"
    /\ pos < Len(scene.zones)
    /\ LET zone == At(scene.zones, pos)
       IN  /\ ~ZoneSkipped(zone)
           /\ IF TriangulateThrows(zone.points)
              THEN /\ threw' = TRUE
                   /\ pc' = "obj_threw"
                   /\ UNCHANGED <<out, vCount, pos>>
              ELSE /\ out' = out \o ObjZoneLines(zone, pos, scene, vCount)
                   /\ vCount' = ObjZoneCount(zone, vCount)
                   /\ pos' = pos + 1
                   /\ UNCHANGED <<pc, threw>>
    /\ UNCHANGED <<scene, triVars, returned, uiVars>>

\* zones.forEach: if (zone.points.length < 3) return
ObjZoneSkip ==
    /\ pc = "obj_zones"
    /\ pos < Len(scene.zones)
    /\ ZoneSkipped(At(scene.zones, pos))
    /\ pos' = pos + 1
    /\ UNCHANGED <<scene, pc, out, vCount, threw, triVars, returned, uiVars>>

\* obj += "g Roads\n"
ObjRoadsGroup ==
    /\ pc = "obj_zones"
    /\ pos = Len(scene.zones)
    /\ out' = Append(out, Line("g", <<"Roads">>, <<"roads", 0>>))
    /\ pc' = "obj_roads"
    /\ pos' = 0
    /\ UNCHANGED <<scene, vCount, threw, triVars, returned, uiVars>>

\* roads.forEach: a road with at least 2 points
ObjRoad ==
    /\ pc = "obj_roads"
    /\ pos < Len(scene.roads)
    /\ LET road == At(scene.roads, pos)
       IN  /\ Len(road.points) >= 2
           /\ out' = out \o ObjRoadLines(road, pos, scene, vCount)
           /\ vCount' = vCount + Len(road.points)
    /\ pos' = pos + 1
    /\ UNCHANGED <<scene, pc, threw, triVars, returned, uiVars>>

\* roads.forEach: if (road.points.length < 2) return
ObjRoadSkip ==
    /\ pc = "obj_roads"
    /\ pos < Len(scene.roads)
    /\ Len(At(scene.roads, pos).points) < 2
    /\ pos' = pos + 1
    /\ UNCHANGED <<scene, pc, out, vCount, threw, triVars, returned, uiVars>>

\* obj += "g Elevations\n"
ObjElevationsGroup ==
    /\ pc = "obj_roads"
    /\ pos = Len(scene.roads)
    /\ out' = Append(out, Line("g", <<"Elevations">>, <<"elevations", 0>>))
    /\ pc' = "obj_elevations"
    /\ pos' = 0
    /\ UNCHANGED <<scene, vCount, threw, triVars, returned, uiVars>>

\* elevations.forEach
ObjElevation ==
    /\ pc = "obj_elevations"
    /\ pos < Len(scene.elevations)
    /\ out' = out \o ObjElevationLines(At(scene.elevations, pos), pos, scene, vCount)
    /\ vCount' = vCount + 5
    /\ pos' = pos + 1
    /\ UNCHANGED <<scene, pc, threw, triVars, returned, uiVars>>

\* return obj
ObjReturn ==
    /\ pc = "obj_elevations"
    /\ pos = Len(scene.elevations)
    /\ pc' = "obj_done"
    /\ UNCHANGED <<scene, pos, out, vCount, threw, triVars, returned, uiVars>>

NextObj ==
    \/ ObjGround \/ ObjZone \/ ObjZoneSkip \/ ObjRoadsGroup
    \/ ObjRoad \/ ObjRoadSkip \/ ObjElevationsGroup \/ ObjElevation \/ ObjReturn

\* generateDXF is called: lines 22-60, the header and the boundary polyline
DxfBegin ==
    /\ pc = "idle"
    /\ out' = DxfHeader \o DxfBoundaryLines(scene)
    /\ pc' = "dxf_roads"
    /\ pos' = 0
    /\ UNCHANGED <<scene, vCount, threw, triVars, returned, uiVars>>

\* roads.forEach: a road with at least 2 points
DxfRoad ==
    /\ pc = "dxf_roads"
    /\ pos < Len(scene.roads)
    /\ Len(At(scene.roads, pos).points) >= 2
    /\ out' = out \o Polyline(At(scene.roads, pos).points, "ROADS_CENTERLINE", "0", scene,
                             <<"road", pos>>)
    /\ pos' = pos + 1
    /\ UNCHANGED <<scene, pc, vCount, threw, triVars, returned, uiVars>>

\* roads.forEach: if (road.points.length < 2) return
DxfRoadSkip ==
    /\ pc = "dxf_roads"
    /\ pos < Len(scene.roads)
    /\ Len(At(scene.roads, pos).points) < 2
    /\ pos' = pos + 1
    /\ UNCHANGED <<scene, pc, out, vCount, threw, triVars, returned, uiVars>>

\* the roads are done, the zones follow
DxfRoadsEnd ==
    /\ pc = "dxf_roads"
    /\ pos = Len(scene.roads)
    /\ pc' = "dxf_zones"
    /\ pos' = 0
    /\ UNCHANGED <<scene, out, vCount, threw, triVars, returned, uiVars>>

\* zones.forEach: a zone with at least 3 points
DxfZone ==
    /\ pc = "dxf_zones"
    /\ pos < Len(scene.zones)
    /\ Len(At(scene.zones, pos).points) >= 3
    /\ out' = out \o DxfZoneLines(At(scene.zones, pos), pos, scene)
    /\ pos' = pos + 1
    /\ UNCHANGED <<scene, pc, vCount, threw, triVars, returned, uiVars>>

\* zones.forEach: if (zone.points.length < 3) return
DxfZoneSkip ==
    /\ pc = "dxf_zones"
    /\ pos < Len(scene.zones)
    /\ Len(At(scene.zones, pos).points) < 3
    /\ pos' = pos + 1
    /\ UNCHANGED <<scene, pc, out, vCount, threw, triVars, returned, uiVars>>

\* the zones are done, the elevation markers follow
DxfZonesEnd ==
    /\ pc = "dxf_zones"
    /\ pos = Len(scene.zones)
    /\ pc' = "dxf_elevations"
    /\ pos' = 0
    /\ UNCHANGED <<scene, out, vCount, threw, triVars, returned, uiVars>>

\* elevations.forEach
DxfElevation ==
    /\ pc = "dxf_elevations"
    /\ pos < Len(scene.elevations)
    /\ out' = out \o DxfElevationLines(At(scene.elevations, pos), pos, scene)
    /\ pos' = pos + 1
    /\ UNCHANGED <<scene, pc, vCount, threw, triVars, returned, uiVars>>

\* lines 121-137: the area annotation, the footer, return dxf
DxfReturn ==
    /\ pc = "dxf_elevations"
    /\ pos = Len(scene.elevations)
    /\ out' = out \o DxfAreaLines(scene) \o DxfFooter
    /\ pc' = "dxf_done"
    /\ UNCHANGED <<scene, pos, vCount, threw, triVars, returned, uiVars>>

NextDxf ==
    \/ DxfBegin \/ DxfRoad \/ DxfRoadSkip \/ DxfRoadsEnd
    \/ DxfZone \/ DxfZoneSkip \/ DxfZonesEnd \/ DxfElevation \/ DxfReturn

NextExport == NextObj \/ NextDxf

SpecExport == InitExport /\ [][NextExport]_vars

---------------------------------------------------------------------------
(* The whole core: one call of any of its operations. *)

InitCore == InitTri \/ InitKernel \/ InitExport

NextCore == NextTri \/ NextKernel \/ NextExport

SpecCore == InitCore /\ [][NextCore]_vars

---------------------------------------------------------------------------
(* Repeated calls.  The caller keeps the string a call returned and calls  *)
(* an exporter again with the same snapshot; what the finished call left   *)
(* in out and vCount stays where it is, for the next call to overwrite.    *)

\* the scenes of the repeated calls: at most one zone, road and marker
RepeatScenes ==
    {[boundary |-> b, zones |-> z, roads |-> r, elevations |-> e,
      height |-> SquareSide, scale |-> sc] :
        b \in {Shape(2), Shape(MaxPts)}, sc \in Scales,
        z \in {<<>>} \cup {<<o>> : o \in ZoneOptions},
        r \in {<<>>} \cup {<<o>> : o \in RoadOptions},
        e \in {<<>>} \cup {<<o>> : o \in ElevationOptions}}

InitRepeat ==
    /\ scene \in RepeatScenes
    /\ pc = "idle"
    /\ pos = 0
    /\ out = <<>>
    /\ vCount = 0
    /\ threw = FALSE
    /\ returned = NoResults
    /\ TriOff
    /\ UiOff

\* the caller stores the returned string and is ready to call again
CallAgain ==
    /\ pc \in {"obj_done", "dxf_done"}
    /\ returned' = IF pc = "obj_done" THEN [returned EXCEPT !.obj = out]
                   ELSE [returned EXCEPT !.dxf = out]
    /\ pc' = "idle"
    /\ UNCHANGED <<scene, pos, out, vCount, threw, triVars, uiVars>>

NextRepeat == NextObj \/ NextDxf \/ CallAgain

SpecRepeat == InitRepeat /\ [][NextRepeat]_vars

---------------------------------------------------------------------------
(* Claims about triangulatePolygon, under SpecTri.                         *)

\* the whole-call operator and the stepped loop return the same array
TriOperatorAgrees ==
    (triPc = "done" /\ ~threw) => triangles = TriangulatePolygon(points)

\* C3: for every input point sequence of length n, simple or not, every value
\* returned by triangulatePolygon is an integer i with 0 <= i < n, and the
\* length of the returned array is a multiple of 3.
C3_IndicesInRange ==
    triPc = "done" =>
        /\ ~threw
        /\ \A i \in 1 .. Len(triangles) : triangles[i] \in 0 .. (Len(points) - 1)
        /\ Len(triangles) % 3 = 0

\* C3 witness: a returned triangulation of a 4-point input with a duplicate point
C3_Witness ==
    /\ triPc = "done"
    /\ Len(points) = 4
    /\ points[1] = points[3]
    /\ Len(triangles) = 6

\* cross product of (b - a) and (c - a)
Cross(a, b, c) == (b.x - a.x) * (c.y - a.y) - (b.y - a.y) * (c.x - a.x)

\* a convex polygon: distinct vertices, and every vertex on the same side of
\* (or on) the line of every edge, in either winding
IsConvexPolygon(pts) ==
    LET n == Len(pts)
        side(s) == \A i \in 0 .. (n - 1) : \A j \in 0 .. (n - 1) :
                       s * Cross(At(pts, i), At(pts, (i + 1) % n), At(pts, j)) >= 0
    IN  /\ n >= 3
        /\ \A i, j \in 1 .. n : i # j => pts[i] # pts[j]
        /\ side(1) \/ side(-1)

\* twice the sum of the areas of the triangles of a flat index array
RECURSIVE TriangleAreaSum2(_, _, _)
TriangleAreaSum2(pts, tris, i) ==
    IF i + 2 > Len(tris) THEN 0
    ELSE CalculatePolygonArea2(<<At(pts, tris[i]), At(pts, tris[i + 1]), At(pts, tris[i + 2])>>)
         + TriangleAreaSum2(pts, tris, i + 3)

\* C4: for any convex polygon with n >= 3 vertices, in either winding,
\* triangulatePolygon returns exactly n - 2 triangles and the sum of their
\* areas equals calculatePolygonArea of the polygon.
C4_ConvexTriangulation ==
    (triPc = "done" /\ IsConvexPolygon(points)) =>
        /\ Len(triangles) = 3 * (Len(points) - 2)
        /\ TriangleAreaSum2(points, triangles, 1) = CalculatePolygonArea2(points)

\* C4 witness: a clockwise convex quadrilateral of non-zero area, triangulated
C4_Witness ==
    /\ triPc = "done"
    /\ Len(points) = 4
    /\ IsConvexPolygon(points)
    /\ ShoelaceSum(points, 0) < 0
    /\ Len(triangles) = 6

\* what is left of the call: 0 once it has returned
TriMeasure == IF triPc = "done" THEN 0 ELSE Len(indices) + 1

\* a call that has not returned can take a step
TriCanStep == triPc # "done" => ENABLED NextTri

\* C5: triangulatePolygon terminates on every input: each pass of the loop
\* either removes one index from the working list or leaves the loop, every
\* step brings the return nearer, and no error is raised.
C5_Terminates ==
    [][/\ TriMeasure' < TriMeasure
       /\ triPc' = "loop" => Len(indices') = Len(indices) - 1
       /\ ~threw']_vars

\* C5 witness: a malformed input on which the loop stopped early and an
\* incomplete triangulation was returned
C5_Witness ==
    /\ triPc = "done"
    /\ ~threw
    /\ Len(indices) > 3
    /\ Len(triangles) < 3 * (Len(points) - 2)


---------------------------------------------------------------------------
(* Properties of generateOBJ and generateDXF, checked under SpecExport.    *)

InObj == pc \in {"obj_zones", "obj_roads", "obj_elevations", "obj_done"}

InDxf == pc \in {"dxf_roads", "dxf_zones", "dxf_elevations", "dxf_done"}

\* the positions of the OBJ lines of one kind
LinesOf(t) == {p \in 1 .. Len(out) : out[p].t = t}

IsStructure(zone) == ZoneTypeString(zone.type)[2] = "(Structure)"

\* what the vertex formula gives for the zones from the i-th on
RECURSIVE ZoneVertexSum(_, _)
ZoneVertexSum(zs, i) ==
    IF i > Len(zs) THEN 0
    ELSE (IF Len(zs[i].points) < 3 THEN 0
          ELSE IF IsStructure(zs[i]) THEN 2 * Len(zs[i].points)
          ELSE Len(zs[i].points))
         + ZoneVertexSum(zs, i + 1)

RECURSIVE RoadVertexSum(_, _)
RoadVertexSum(rs, i) ==
    IF i > Len(rs) THEN 0
    ELSE (IF Len(rs[i].points) < 2 THEN 0 ELSE Len(rs[i].points))
         + RoadVertexSum(rs, i + 1)

ExpectedVertexTotal(sc) ==
    Len(sc.boundary) + ZoneVertexSum(sc.zones, 1) + RoadVertexSum(sc.roads, 1)
    + 5 * Len(sc.elevations)

\* C1: when generateOBJ returns, the number of vertex lines it emitted is
\* the boundary length, plus the length of every non-Structure zone with at
\* least 3 points, plus twice the length of every Structure zone with at
\* least 3 points, plus the length of every road with at least 2 points,
\* plus 5 per elevation marker; and vCount is that total plus 1.
C1_VertexCount ==
    pc = "obj_done" =>
        /\ Cardinality(LinesOf("v")) = ExpectedVertexTotal(scene)
        /\ vCount = ExpectedVertexTotal(scene) + 1

\* a returned mesh with a Structure zone, a road and a polygon boundary
C1_Witness ==
    /\ pc = "obj_done"
    /\ Len(scene.boundary) >= 3
    /\ \E i \in 1 .. Len(scene.zones) :
          IsStructure(scene.zones[i]) /\ Len(scene.zones[i].points) >= 3
    /\ \E i \in 1 .. Len(scene.roads) : Len(scene.roads[i].points) >= 2
    /\ vCount > 1 + Len(scene.boundary)

\* the vertex lines of the mesh so far, in order: the n-th is vertex n
VertexLines == SelectSeq(out, LAMBDA ln : ln.t = "v")

VerticesBefore(p) == Cardinality({q \in 1 .. (p - 1) : out[q].t = "v"})

\* C2: every index on an f or l line of the mesh is at least 1, at most the
\* number of vertex lines emitted before that line, and names a vertex that
\* the same scene element emitted.
C2_IndicesValid ==
    InObj =>
        \A p \in LinesOf("f") \cup LinesOf("l") :
            \A j \in 1 .. Len(out[p].a) :
                /\ out[p].a[j] >= 1
                /\ out[p].a[j] <= VerticesBefore(p)
                /\ VertexLines[out[p].a[j]].el = out[p].el

\* a returned mesh whose second element is a Structure zone with wall faces
\* and that has a road line
C2_Witness ==
    /\ pc = "obj_done"
    /\ Len(scene.boundary) >= 3
    /\ \E p \in LinesOf("f") : out[p].el[1] = "zone" /\ out[p].a[1] > 2 * Len(scene.boundary)
    /\ LinesOf("l") # {}

\* the positions of the DXF pairs that start an entity of one kind
EntitiesOf(kind) == {p \in 1 .. Len(out) : out[p].c = "0" /\ out[p].v = kind}

\* the position after the last pair of the entity that starts at p
EntityEnd(p) ==
    LET later == {q \in (p + 1) .. Len(out) : out[q].c = "0"}
    IN  IF later = {} THEN Len(out) + 1
        ELSE CHOOSE q \in later : \A r \in later : q <= r

\* the positions of the pairs with one code in the entity that starts at p
PairsOf(p, code) == {q \in (p + 1) .. (EntityEnd(p) - 1) : out[q].c = code}

\* C6: in the drawing, the vertex count an LWPOLYLINE declares under code 90
\* is the number of 10/20 coordinate pairs that follow it in the entity.
C6_DeclaredCount ==
    InDxf =>
        \A p \in EntitiesOf("LWPOLYLINE") :
            /\ out[p + 2].c = "90"
            /\ out[p + 2].v = ToString(Cardinality(PairsOf(p, "10")))
            /\ \A q \in PairsOf(p, "10") : out[q + 1].c = "20"
            /\ Cardinality(PairsOf(p, "20")) = Cardinality(PairsOf(p, "10"))

\* a returned drawing with a boundary, a road and a zone polyline
C6_Witness ==
    /\ pc = "dxf_done"
    /\ \E p \in EntitiesOf("LWPOLYLINE") : out[p + 1].v = "SITE_BOUNDARY" /\ out[p + 2].v = "4"
    /\ \E p \in EntitiesOf("LWPOLYLINE") : out[p + 1].v = "ROADS_CENTERLINE"
    /\ \E p \in EntitiesOf("LWPOLYLINE") : out[p + 1].v = "FUNCTION_ZONES"

\* the text entities on the ANNOTATIONS layer
AreaTexts == {p \in EntitiesOf("TEXT") : out[p + 1] = G("8", "ANNOTATIONS", out[p].el)}

\* area * scale^2 to one decimal: the tenths, rounded half up
ExpectedAreaText(sc) ==
    LET twice == CalculatePolygonArea2(sc.boundary)
        n == sc.scale.n * sc.scale.n
        d == sc.scale.d * sc.scale.d
    IN  [s |-> "fin", neg |-> FALSE, mag |-> (2 * 10 * twice * n + 2 * d) \div (4 * d)]

\* C7: the drawing carries the area annotation exactly when the boundary has
\* more than 2 points, then exactly once, and its text is the boundary's
\* area times the scale squared, to one decimal.
C7_AreaAnnotation ==
    /\ (InDxf /\ pc # "dxf_done") => AreaTexts = {}
    /\ pc = "dxf_done" =>
          IF Len(scene.boundary) > 2
          THEN /\ Cardinality(AreaTexts) = 1
               /\ \A p \in AreaTexts :
                     \E q \in PairsOf(p, "1") :
                        out[q].v = <<"AREA: ", ExpectedAreaText(scene), " m^2">>
          ELSE AreaTexts = {}

\* a returned drawing of the square: 100 square pixels at 0.1 m per pixel
C7_Witness ==
    /\ pc = "dxf_done"
    /\ Len(scene.boundary) = 4
    /\ CalculatePolygonArea2(scene.boundary) = 2 * SquareSide * SquareSide
    /\ AreaTexts # {}

\* the pairs or lines that an element emitted
EmittedBy(el) == {p \in 1 .. Len(out) : out[p].el = el}

SkippedZones == {i \in 1 .. Len(scene.zones) : Len(scene.zones[i].points) < 3}

SkippedRoads == {i \in 1 .. Len(scene.roads) : Len(scene.roads[i].points) < 2}

\* C8: a zone with fewer than 3 points and a road with fewer than 2 points
\* are skipped by both exporters: nothing in the output comes from them and
\* the vertex counter does not move, while every other zone, road and
\* marker is exported.
C8_UndersizedSkipped ==
    /\ (InObj \/ InDxf) =>
          /\ \A i \in SkippedZones : EmittedBy(<<"zone", i - 1>>) = {}
          /\ \A i \in SkippedRoads : EmittedBy(<<"road", i - 1>>) = {}
    /\ InObj => vCount = 1 + Cardinality(LinesOf("v"))
    /\ pc = "obj_done" =>
          /\ \A i \in (1 .. Len(scene.zones)) \ SkippedZones :
                /\ \E p \in LinesOf("g") : out[p].el = <<"zone", i - 1>>
                /\ \E p \in LinesOf("f") : out[p].el = <<"zone", i - 1>>
          /\ \A i \in (1 .. Len(scene.roads)) \ SkippedRoads :
                \E p \in LinesOf("l") : out[p].el = <<"road", i - 1>>
          /\ \A i \in 1 .. Len(scene.elevations) :
                Cardinality(LinesOf("f") \cap EmittedBy(<<"elev", i - 1>>)) = 4
    /\ pc = "dxf_done" =>
          /\ \A i \in (1 .. Len(scene.zones)) \ SkippedZones :
                /\ \E p \in EntitiesOf("LWPOLYLINE") : out[p].el = <<"zone", i - 1>>
                /\ \E p \in EntitiesOf("TEXT") : out[p].el = <<"zone", i - 1>>
          /\ \A i \in (1 .. Len(scene.roads)) \ SkippedRoads :
                \E p \in EntitiesOf("LWPOLYLINE") : out[p].el = <<"road", i - 1>>
          /\ \A i \in 1 .. Len(scene.elevations) :
                \E p \in EntitiesOf("POINT") : out[p].el = <<"elev", i - 1>>


\* a returned drawing where the first zone was skipped and the second was not
C8_Witness ==
    /\ pc = "dxf_done"
    /\ Len(scene.zones) = 2
    /\ SkippedZones = {1}
    /\ EmittedBy(<<"zone", 1>>) # {}

GroundLines(t) == {p \in LinesOf(t) : out[p].el = <<"ground", 0>>}

BoundaryPolylines ==
    {p \in EntitiesOf("LWPOLYLINE") : out[p + 1] = G("8", "SITE_BOUNDARY", out[p].el)}

\* C9 as stated: a boundary with fewer than 3 points is skipped by each
\* exporter: no vertex and no face in the mesh, no SITE_BOUNDARY polyline in
\* the drawing.
C9_BoundarySkipped ==
    Len(scene.boundary) < 3 =>
        /\ InObj => GroundLines("v") = {} /\ GroundLines("f") = {}
        /\ InDxf => BoundaryPolylines = {}

\* C9: for a boundary with fewer than 3 points, only the empty boundary
\* emits nothing.  With 1 or 2 points the mesh has one ground vertex per
\* boundary point, counted by vCount, and no ground face; the drawing has
\* one SITE_BOUNDARY polyline declaring that many points, and no area
\* annotation.
C9_BoundaryEmitted ==
    Len(scene.boundary) < 3 =>
        /\ InObj =>
              /\ Cardinality(GroundLines("v")) = Len(scene.boundary)
              /\ GroundLines("f") = {}
              /\ vCount >= 1 + Len(scene.boundary)
        /\ InDxf =>
              /\ Cardinality(BoundaryPolylines) = IF Len(scene.boundary) = 0 THEN 0 ELSE 1
              /\ \A p \in BoundaryPolylines :
                    /\ out[p + 2].v = ToString(Len(scene.boundary))
                    /\ Cardinality(PairsOf(p, "10")) = Len(scene.boundary)
              /\ AreaTexts = {}

\* a returned drawing of a 2-point boundary, with its polyline
C9_Witness ==
    /\ pc = "dxf_done"
    /\ Len(scene.boundary) = 2
    /\ BoundaryPolylines # {}

\* the position of a section's opening pairs, 0 if there is none
SectionAt(name) ==
    LET at == {p \in 1 .. (Len(out) - 1) :
                  out[p] = G("0", "SECTION", Doc) /\ out[p + 1] = G("2", name, Doc)}
    IN  IF at = {} THEN 0 ELSE CHOOSE p \in at : TRUE

\* C10: for every scene, however degenerate, each exporter runs to its
\* return and raises nothing: no call of the kernel throws, and before the
\* return each loop's position is within its list, so that the step for the
\* next element or the step that leaves the loop can be taken.  The drawing
\* has the HEADER, TABLES and ENTITIES sections and ends with ENDSEC then EOF.
C10_AlwaysCompletes ==
    /\ ~threw
    /\ pc # "obj_threw"
    /\ pc \in {"obj_zones", "dxf_zones"} => pos <= Len(scene.zones)
    /\ pc \in {"obj_roads", "dxf_roads"} => pos <= Len(scene.roads)
    /\ pc \in {"obj_elevations", "dxf_elevations"} => pos <= Len(scene.elevations)
    /\ pc = "dxf_done" =>
          /\ 0 < SectionAt("HEADER")
          /\ SectionAt("HEADER") < SectionAt("TABLES")
          /\ SectionAt("TABLES") < SectionAt("ENTITIES")
          /\ Len(out) >= 2
          /\ out[Len(out) - 1] = G("0", "ENDSEC", Doc)
          /\ out[Len(out)] = G("0", "EOF", Doc)

\* a returned drawing of a scene with no boundary and a zone of zero area,
\* whose label sits at a NaN coordinate
C10_Witness ==
    /\ pc = "dxf_done"
    /\ scene.boundary = <<>>
    /\ \E p \in EntitiesOf("TEXT") : out[p + 2].v.s = "NaN"

---------------------------------------------------------------------------
(* Repeated calls, checked under SpecRepeat. *)

\* C11: a call of an exporter returns the same output as the earlier call
\* of that exporter on the same snapshot, whatever calls ran before or
\* between them; in every generateOBJ call the vertex counter starts at 1,
\* so that after the ground plane it is 1 plus the boundary length.
C11_RepeatedCallsAgree ==
    /\ (pc = "obj_done" /\ returned.obj # <<>>) => out = returned.obj
    /\ (pc = "dxf_done" /\ returned.dxf # <<>>) => out = returned.dxf
    /\ (pc = "obj_zones" /\ pos = 0) => vCount = 1 + Len(scene.boundary)

\* a second mesh export has returned, with a drawing export before it, for
\* a scene whose first call moved the vertex counter
C11_Witness ==
    /\ pc = "obj_done"
    /\ returned.obj = out
    /\ returned.dxf # <<>>
    /\ vCount > 1

---------------------------------------------------------------------------
(* The end-to-end scenario, checked under SpecExport. *)

\* the 10 x 10 pixel square
ScenarioSquare == <<Pt(0, 0), Pt(10, 0), Pt(10, 10), Pt(0, 10)>>

\* the square site at 0.1 m per pixel with one Structure zone over it, no
\* roads, no elevation markers
IsScenario ==
    /\ scene.boundary = ScenarioSquare
    /\ scene.zones = <<[points |-> ScenarioSquare, type |-> "STRUCTURE"]>>
    /\ scene.roads = <<>>
    /\ scene.elevations = <<>>
    /\ scene.scale = R(1, 10)
    /\ scene.height = 10

\* the arguments of the lines of one kind that one element emitted, in order
ArgsOf(t, el) == [i \in 1 .. Len(SelectSeq(out, LAMBDA ln : ln.t = t /\ ln.el = el)) |->
                    SelectSeq(out, LAMBDA ln : ln.t = t /\ ln.el = el)[i].a]

\* the kinds of the lines from the ground group to the end of the zone
ScenarioKinds ==
    <<"g", "usemtl", "v", "v", "v", "v", "f", "f",
      "g", "v", "v", "v", "v", "v", "v", "v", "v",
      "f", "f", "f", "f", "f", "f", "f", "f", "f", "f">>

\* C12: for the scenario, the returned mesh has 4 ground vertices and 2
\* ground faces, then for the zone a bottom ring of 4 vertices and a top
\* ring of 4 vertices, 2 roof faces on the top ring and 8 wall faces, two
\* per edge.
C12_Scenario ==
    (pc = "obj_done" /\ IsScenario) =>
        /\ [i \in 1 .. Len(ScenarioKinds) |-> out[i + 3].t] = ScenarioKinds
        /\ Len(ArgsOf("v", <<"ground", 0>>)) = 4
        /\ \A i \in 1 .. 4 : ArgsOf("v", <<"ground", 0>>)[i][3] = ToFixed(R(0, 1), 3)
        /\ ArgsOf("f", <<"ground", 0>>) = << <<4, 1, 2>>, <<2, 3, 4>> >>
        /\ Len(ArgsOf("v", <<"zone", 0>>)) = 8
        /\ \A i \in 1 .. 4 :
              /\ ArgsOf("v", <<"zone", 0>>)[i][3] = [s |-> "fin", neg |-> FALSE, mag |-> 50]
              /\ ArgsOf("v", <<"zone", 0>>)[i + 4][3] = [s |-> "fin", neg |-> FALSE, mag |-> 6050]
              /\ ArgsOf("v", <<"zone", 0>>)[i][1] = ArgsOf("v", <<"zone", 0>>)[i + 4][1]
              /\ ArgsOf("v", <<"zone", 0>>)[i][2] = ArgsOf("v", <<"zone", 0>>)[i + 4][2]
        /\ ArgsOf("f", <<"zone", 0>>) =
              << <<12, 9, 10>>, <<10, 11, 12>>,
                 <<5, 6, 10>>, <<5, 10, 9>>, <<6, 7, 11>>, <<6, 11, 10>>,
                 <<7, 8, 12>>, <<7, 12, 11>>, <<8, 5, 9>>, <<8, 9, 12>> >>

\* the mesh of the scenario has been returned
C12_Witness ==
    /\ pc = "obj_done"
    /\ IsScenario
    /\ vCount = 13

\* the group lines with one name
GroupLines(name) == {p \in LinesOf("g") : out[p].a = <<name>>}

\* C13 as stated: for a scene with no roads and no elevation markers the
\* returned mesh has no Roads group and no Elevations group.
C13_NoEmptyGroups ==
    (pc = "obj_done" /\ scene.roads = <<>> /\ scene.elevations = <<>>) =>
        /\ GroupLines("Roads") = {}
        /\ GroupLines("Elevations") = {}

---------------------------------------------------------------------------
(* Properties of calculatePolygonArea and getPolygonCentroid, checked      *)
(* under SpecKernel.                                                       *)

Reverse(pts) == [i \in 1 .. Len(pts) |-> pts[Len(pts) + 1 - i]]

\* the same cycle of points, started k places later
Rotate(pts, k) == [i \in 1 .. Len(pts) |-> pts[((i - 1 + k) % Len(pts)) + 1]]

UnitSquare == <<Pt(0, 0), Pt(1, 0), Pt(1, 1), Pt(0, 1)>>

\* C14: calculatePolygonArea returns 0 for fewer than 3 points, never a
\* negative value, the same value for the reversed sequence and for every
\* cyclic rotation of the sequence, and 1 for the unit square in both
\* windings.
C14_AreaProperties ==
    result.op = "area" =>
        /\ result.value.d > 0
        /\ result.value.n >= 0
        /\ Len(points) < 3 => result.value.n = 0
        /\ result.value = CalculatePolygonArea(Reverse(points))
        /\ \A k \in 0 .. (Len(points) - 1) :
              result.value = CalculatePolygonArea(Rotate(points, k))
        /\ points \in {UnitSquare, Reverse(UnitSquare)} => result.value.n = result.value.d

\* the area of the unit square in the winding whose shoelace sum is negative
C14_Witness ==
    /\ result.op = "area"
    /\ points \in {UnitSquare, Reverse(UnitSquare)}
    /\ ShoelaceSum(points, 0) < 0
    /\ result.value = R(2, 2)

\* the finite number a is num / den
IsValue(a, num, den) == a.d > 0 /\ a.n * den = num * a.d

\* the four corners of an axis-aligned rectangle, counter-clockwise from (x1, y1)
Corners(x1, y1, x2, y2) == <<Pt(x1, y1), Pt(x2, y1), Pt(x2, y2), Pt(x1, y2)>>

\* the listings of a rectangle: either winding, from any corner
Listings(c) == {Rotate(c, k) : k \in 0 .. 3} \cup {Rotate(Reverse(c), k) : k \in 0 .. 3}

Square2 == <<Pt(0, 0), Pt(2, 0), Pt(2, 2), Pt(0, 2)>>

\* C15: getPolygonCentroid returns {0, 0} for the empty sequence, the
\* center of every axis-aligned rectangle of non-zero area in either
\* winding and from any starting corner, and (1, 1) for the square
\* (0,0),(2,0),(2,2),(0,2).
C15_CentroidOfRectangle ==
    result.op = "centroid" =>
        /\ points = <<>> => result.value = [x |-> R(0, 1), y |-> R(0, 1)]
        /\ \A x1, x2, y1, y2 \in Coords :
              (x1 < x2 /\ y1 < y2 /\ points \in Listings(Corners(x1, y1, x2, y2))) =>
                  /\ IsValue(result.value.x, x1 + x2, 2)
                  /\ IsValue(result.value.y, y1 + y2, 2)
        /\ points = Square2 =>
              IsValue(result.value.x, 1, 1) /\ IsValue(result.value.y, 1, 1)

\* the centroid of a clockwise listing of a rectangle that is not a square
C15_Witness ==
    /\ result.op = "centroid"
    /\ points = <<Pt(MaxCoord, 1), Pt(MaxCoord, 0), Pt(0, 0), Pt(0, 1)>>
    /\ IsValue(result.value.x, MaxCoord, 2)
    /\ IsValue(result.value.y, 1, 2)

---------------------------------------------------------------------------
(* Properties of the whole core, checked under SpecCore. *)

\* C16: no step of triangulatePolygon, calculatePolygonArea,
\* getPolygonCentroid, generateOBJ or generateDXF changes the caller's data:
\* the point array of a kernel call and the boundary, zones, roads and
\* elevations of the scene stay as they were, in the same order.
C16_InputsUnchanged == [][points' = points /\ scene' = scene]_vars

\* triangulatePolygon has returned after shortening its working list, and
\* the caller's array still has all its points
C16_Witness ==
    /\ triPc = "done"
    /\ Len(points) = 4
    /\ Len(indices) = 3
    /\ Len(triangles) = 6

---------------------------------------------------------------------------
(* The two transforms, compared on the strings that a mesh export and a    *)
(* drawing export of the same scene returned; checked under SpecRepeat.    *)

\* the v lines that an element emitted into the returned mesh
MeshVertices(el) ==
    SelectSeq(returned.obj, LAMBDA ln : ln.t = "v" /\ ln.el = el)

\* the values under one group code that an element emitted into the
\* returned drawing
DrawingValues(code, el) ==
    SelectSeq(returned.dxf, LAMBDA g : g.c = code /\ g.el = el)

\* x = pixelX * scale and y = (canvasHeight - pixelY) * scale
WorldX(p) == R(p.x * scene.scale.n, scene.scale.d)

WorldY(p) == R((scene.height - p.y) * scene.scale.n, scene.scale.d)

Less(a, b) == a.n * b.d < b.n * a.d

BothReturned == returned.obj # <<>> /\ returned.dxf # <<>>

\* C17: to3D and toCad map a pixel point to the same x and y, x = pixelX *
\* scale and y = (canvasHeight - pixelY) * scale, so that of two points the
\* one with the smaller pixel Y has the larger world Y; z is the height
\* supplied, 0 when none is.
C17_TransformsAgree ==
    BothReturned =>
        /\ \A i \in 1 .. Len(scene.boundary) :
              LET p == scene.boundary[i]
                  v == MeshVertices(<<"ground", 0>>)[i].a
              IN  /\ v[1] = ToFixed(WorldX(p), 3)
                  /\ v[2] = ToFixed(WorldY(p), 3)
                  /\ v[3] = ToFixed(R(0, 1), 3)
                  /\ DrawingValues("10", <<"boundary", 0>>)[i].v = v[1]
                  /\ DrawingValues("20", <<"boundary", 0>>)[i].v = v[2]
                  /\ To3D(p, R(0, 1), scene) = ToCadPoint(p, R(0, 1), scene)
        /\ \A i \in 1 .. Len(scene.elevations) :
              LET ep == scene.elevations[i]
                  v == MeshVertices(<<"elev", i - 1>>)[1].a
              IN  /\ v[1] = ToFixed(WorldX(ep), 3)
                  /\ v[2] = ToFixed(WorldY(ep), 3)
                  /\ v[3] = ToFixed(ep.value, 3)
                  /\ DrawingValues("10", <<"elev", i - 1>>)[1].v = v[1]
                  /\ DrawingValues("20", <<"elev", i - 1>>)[1].v = v[2]
                  /\ DrawingValues("30", <<"elev", i - 1>>)[1].v = v[3]
        /\ \A i, j \in 1 .. Len(scene.boundary) :
              scene.boundary[i].y < scene.boundary[j].y =>
                  /\ Less(To3D(scene.boundary[j], R(0, 1), scene).y,
                          To3D(scene.boundary[i], R(0, 1), scene).y)
                  /\ Less(ToCadPoint(scene.boundary[j], R(0, 1), scene).y,
                          ToCadPoint(scene.boundary[i], R(0, 1), scene).y)

\* both exports of a scene with a polygon boundary and a marker have returned
C17_Witness ==
    /\ BothReturned
    /\ Len(scene.boundary) = MaxPts
    /\ Len(scene.elevations) = 1
    /\ Len(MeshVertices(<<"ground", 0>>)) = MaxPts
    /\ Len(DrawingValues("10", <<"boundary", 0>>)) = MaxPts

---------------------------------------------------------------------------
(* The centroid of a polygon of zero signed area, checked under SpecCore. *)

\* the zones that generateDXF does not skip and whose shoelace sum is zero
FlatZones ==
    {i \in 1 .. Len(scene.zones) :
        Len(scene.zones[i].points) >= 3 /\ ShoelaceSum(scene.zones[i].points, 0) = 0}

\* C18: getPolygonCentroid guards only the empty input: for a non-empty
\* point sequence whose signed shoelace sum is zero, so for every sequence
\* of 1 or 2 points and for collinear points, both quotients are divisions
\* by zero and the result is not finite.  For a zone of that kind the
\* returned drawing still has the zone's polyline and its label, at a
\* position that is no number, and the entities that follow it.
C18_CentroidUnguarded ==
    /\ (result.op = "centroid" /\ points # <<>> /\ ShoelaceSum(points, 0) = 0) =>
          result.value.x.d = 0 /\ result.value.y.d = 0
    /\ (result.op = "centroid" /\ Len(points) \in {1, 2}) => ShoelaceSum(points, 0) = 0
    /\ pc = "dxf_done" =>
          \A i \in FlatZones :
              /\ \E p \in EntitiesOf("LWPOLYLINE") :
                    out[p].el = <<"zone", i - 1>> /\ Cardinality(PairsOf(p, "10")) = Len(scene.zones[i].points)
              /\ \E p \in EntitiesOf("TEXT") :
                    /\ out[p].el = <<"zone", i - 1>>
                    /\ \A q \in PairsOf(p, "10") \cup PairsOf(p, "20") : out[q].v.s # "fin"
                    /\ PairsOf(p, "1") # {}
              /\ \A j \in (i + 1) .. Len(scene.zones) :
                    Len(scene.zones[j].points) >= 3 => EmittedBy(<<"zone", j - 1>>) # {}
              /\ \A j \in 1 .. Len(scene.elevations) : EmittedBy(<<"elev", j - 1>>) # {}
              /\ out[Len(out)] = G("0", "EOF", Doc)

\* a returned drawing whose first zone is three collinear points, labelled at
\* NaN, followed by a marker
C18_Witness ==
    /\ pc = "dxf_done"
    /\ 1 \in FlatZones
    /\ Len(scene.elevations) = 1
    /\ \E p \in EntitiesOf("TEXT") : out[p].el = <<"zone", 0>> /\ out[p + 2].v.s = "NaN"
    /\ \E p \in EntitiesOf("POINT") : out[p].el = <<"elev", 0>>

---------------------------------------------------------------------------
(* The ear test, checked under SpecTri against the geometry of the         *)
(* triangle: the side of each edge's line that a point is on.              *)

\* p is inside the triangle (a, b, c) and on none of its edges
StrictlyInside(p, a, b, c) ==
    LET s == Sign(Cross(a, b, c))
    IN  /\ s # 0
        /\ s * Cross(a, b, p) > 0
        /\ s * Cross(b, c, p) > 0
        /\ s * Cross(c, a, p) > 0

\* p is inside the triangle (a, b, c), or on its edge a-b or a-c, the corner
\* a included, the corners b and c and the edge b-c not
InsideOrOnEdgesAtA(p, a, b, c) ==
    LET s == Sign(Cross(a, b, c))
    IN  /\ s # 0
        /\ s * Cross(a, b, p) >= 0
        /\ s * Cross(b, c, p) > 0
        /\ s * Cross(c, a, p) >= 0

\* the listed vertices other than prev, curr and next of position i
OtherPositions(i) ==
    LET n == Len(indices)
    IN  (0 .. (n - 1)) \ {i, (i - 1 + n) % n, (i + 1) % n}

Prev(i) == At(points, At(indices, (i - 1 + Len(indices)) % Len(indices)))

Curr(i) == At(points, At(indices, i))

Succ(i) == At(points, At(indices, (i + 1) % Len(indices)))

InScan == triPc = "loop" /\ LoopCond(points, indices, iterations)

\* C19 as stated: a listed vertex is an ear exactly when no other listed
\* vertex is strictly inside its triangle; a vertex on an edge or at a
\* corner of the triangle does not prevent the clipping.
C19_StrictlyInsideOnly ==
    InScan =>
        \A i \in 0 .. (Len(indices) - 1) :
            IsEar(points, indices, i)
            <=> ~\E j \in OtherPositions(i) :
                    StrictlyInside(At(points, At(indices, j)), Prev(i), Curr(i), Succ(i))

\* C19: a listed vertex is an ear exactly when no other listed vertex is
\* strictly inside its triangle, on the edge prev-curr, on the edge
\* prev-next or at prev; a vertex on the edge curr-next, at curr or at next
\* does not prevent the clipping, and nothing does when prev, curr and next
\* are collinear.
C19_EarTest ==
    InScan =>
        \A i \in 0 .. (Len(indices) - 1) :
            IsEar(points, indices, i)
            <=> ~\E j \in OtherPositions(i) :
                    InsideOrOnEdgesAtA(At(points, At(indices, j)), Prev(i), Curr(i), Succ(i))

\* a call has returned whose first scan passed over position 0, where
\* nothing is strictly inside the triangle and another vertex is on an edge
\* at prev, and clipped a later position
C19_Witness ==
    /\ triPc = "done"
    /\ Len(points) = 4
    /\ LET idx == InitIndices(points)
           e == EarScan(points, idx, 0)
       IN  /\ e > 0
           /\ SubSeq(triangles, 1, 3) = EarTriangle(idx, e)
           /\ Cross(points[4], points[1], points[2]) # 0
           /\ ~StrictlyInside(points[3], points[4], points[1], points[2])
           /\ InsideOrOnEdgesAtA(points[3], points[4], points[1], points[2])

---------------------------------------------------------------------------
(* Simple polygons, checked under SpecTri. *)

Min(a, b) == IF a < b THEN a ELSE b

Max(a, b) == IF a > b THEN a ELSE b

\* p is on the closed segment a-b
OnSegment(a, b, p) ==
    /\ Cross(a, b, p) = 0
    /\ Min(a.x, b.x) <= p.x /\ p.x <= Max(a.x, b.x)
    /\ Min(a.y, b.y) <= p.y /\ p.y <= Max(a.y, b.y)

\* the closed segments a-b and c-d have a point in common
SegmentsMeet(a, b, c, d) ==
    \/ /\ Sign(Cross(c, d, a)) * Sign(Cross(c, d, b)) < 0
       /\ Sign(Cross(a, b, c)) * Sign(Cross(a, b, d)) < 0
    \/ OnSegment(c, d, a) \/ OnSegment(c, d, b)
    \/ OnSegment(a, b, c) \/ OnSegment(a, b, d)

\* a simple polygon: at least 3 distinct vertices, consecutive edges meet
\* only at the vertex they share, other edges do not meet
IsSimplePolygon(pts) ==
    LET n == Len(pts)
        V(i) == pts[((i - 1) % n) + 1]
    IN  /\ n >= 3
        /\ \A i, j \in 1 .. n : i # j => pts[i] # pts[j]
        /\ \A i \in 1 .. n :
              /\ ~OnSegment(V(i), V(i + 1), V(i + 2))
              /\ ~OnSegment(V(i + 1), V(i + 2), V(i))
        /\ \A i, j \in 1 .. n :
              (i < j /\ j # i + 1 /\ ~(i = 1 /\ j = n)) =>
                  ~SegmentsMeet(V(i), V(i + 1), V(j), V(j + 1))

\* C20: for a simple polygon with n >= 3 vertices, convex or not, in either
\* winding, every scan of triangulatePolygon finds an ear, so the loop does
\* not stop early, and n - 2 triangles are returned.
C20_SimplePolygon ==
    IsSimplePolygon(points) =>
        /\ InScan => EarScan(points, indices, 0) # -1
        /\ triPc = "done" =>
              /\ ~threw
              /\ Len(indices) = 3
              /\ Len(triangles) = 3 * (Len(points) - 2)

\* the call has returned for a simple quadrilateral with a reflex vertex
C20_Witness ==
    /\ triPc = "done"
    /\ Len(points) = 4
    /\ IsSimplePolygon(points)
    /\ ~IsConvexPolygon(points)
    /\ Len(triangles) = 6

---------------------------------------------------------------------------
(* The pyramid of an elevation marker, checked under SpecExport.           *)

\* the lines of one kind that an element emitted into the mesh, in order
ElementLines(t, el) == SelectSeq(out, LAMBDA ln : ln.t = t /\ ln.el = el)

\* the index of the first vertex that an element emitted
FirstVertexOf(el) ==
    1 + VerticesBefore(CHOOSE p \in EmittedBy(el) : \A q \in EmittedBy(el) : p <= q)

\* the pyramid of every marker of a returned mesh: an apex at the marker's
\* transformed position and height, 4 base vertices at x and y plus or minus
\* half a unit and a height of drop below the apex, and 4 faces that hold
\* the apex and one base edge each, every base edge once
PyramidShape(drop) ==
    pc = "obj_done" =>
        \A i \in 1 .. Len(scene.elevations) :
            LET ep == scene.elevations[i]
                el == <<"elev", i - 1>>
                v == ElementLines("v", el)
                f == ElementLines("f", el)
                t == FirstVertexOf(el)
                h == R(1, 2)
                Corner(sx, sy) ==
                    <<ToFixed(Add(WorldX(ep), R(sx * h.n, h.d)), 3),
                      ToFixed(Add(WorldY(ep), R(sy * h.n, h.d)), 3),
                      ToFixed(Sub(ep.value, drop), 3)>>
                \* two base vertices are the ends of a base edge when they
                \* differ in x only or in y only
                BaseEdges ==
                    {{t + j, t + k} : <<j, k>> \in
                        {pr \in (1 .. 4) \X (1 .. 4) :
                            /\ pr[1] < pr[2]
                            /\ (v[pr[1] + 1].a[1] = v[pr[2] + 1].a[1])
                                 # (v[pr[1] + 1].a[2] = v[pr[2] + 1].a[2])}}
            IN  /\ Len(v) = 5
                /\ Len(f) = 4
                /\ v[1].a = <<ToFixed(WorldX(ep), 3), ToFixed(WorldY(ep), 3),
                              ToFixed(ep.value, 3)>>
                /\ {v[j].a : j \in 2 .. 5}
                     = {Corner(sx, sy) : sx \in {-1, 1}, sy \in {-1, 1}}
                /\ Cardinality({v[j].a : j \in 2 .. 5}) = 4
                /\ Cardinality(BaseEdges) = 4
                /\ \A j \in 1 .. 4 :
                      /\ Len(f[j].a) = 3
                      /\ \E k \in 1 .. 3 : f[j].a[k] = t
                /\ {{f[j].a[k] : k \in 1 .. 3} \ {t} : j \in 1 .. 4} = BaseEdges

\* C21 as stated: every marker's pyramid has its apex at the marker's
\* transformed position and height, its 4 base vertices at x and y plus or
\* minus the half-size and at a height one unit below the apex, and 4
\* triangular faces, each with the apex and one base edge, that cover the 4
\* base edges once each.
C21_PyramidOneUnit == PyramidShape(R(1, 1))

\* C21: every marker's pyramid has its apex at the marker's transformed
\* position and height, its 4 base vertices at x and y plus or minus the
\* half-size 0.5 and at a height 0.5 (the same half-size) below the apex,
\* and 4 triangular faces, each with the apex and one base edge, that cover
\* the 4 base edges once each.
C21_PyramidHalfUnit == PyramidShape(R(1, 2))

\* a returned mesh with a marker whose 5 vertices and 4 faces were emitted
C21_Witness ==
    /\ pc = "obj_done"
    /\ Len(scene.elevations) >= 1
    /\ Len(ElementLines("f", <<"elev", 0>>)) = 4

---------------------------------------------------------------------------
(* The rings and the cap of a zone, checked under SpecExport.              *)

\* the zones that generateOBJ exports
ExportedZones == {i \in 1 .. Len(scene.zones) : Len(scene.zones[i].points) >= 3}

\* the index triples of the triangulation, each index moved by base
CapTriples(pts, base) ==
    LET tris == TriangulatePolygon(pts)
    IN  [j \in 1 .. (Len(tris) \div 3) |->
            <<base + tris[3 * j - 2], base + tris[3 * j - 1], base + tris[3 * j]>>]

\* C22: of every exported zone the bottom ring is at height -0.5 for Water
\* and 0.05 for every other type, follows the zone's points, and is the only
\* ring unless the zone is a Structure, whose top ring is 6.0 above the
\* bottom one; the cap faces are the triangulation's triples on the top ring
\* of a Structure (all indices in the top ring's range) and on the bottom
\* ring of every other zone.
C22_RingsAndCap ==
    pc = "obj_done" =>
        \A i \in ExportedZones :
            LET zone == scene.zones[i]
                el == <<"zone", i - 1>>
                len == Len(zone.points)
                v == ElementLines("v", el)
                f == ElementLines("f", el)
                b == FirstVertexOf(el)
                bottom == IF zone.type = "WATER" THEN R(-1, 2) ELSE R(1, 20)
                top == Add(bottom, R(6, 1))
                cap == CapTriples(zone.points, IF IsStructure(zone) THEN b + len ELSE b)
            IN  /\ Len(v) = IF IsStructure(zone) THEN 2 * len ELSE len
                /\ \A j \in 1 .. len :
                      v[j].a = <<ToFixed(WorldX(zone.points[j]), 3),
                                 ToFixed(WorldY(zone.points[j]), 3),
                                 ToFixed(bottom, 3)>>
                /\ IsStructure(zone) =>
                      \A j \in 1 .. len :
                          v[len + j].a = <<ToFixed(WorldX(zone.points[j]), 3),
                                           ToFixed(WorldY(zone.points[j]), 3),
                                           ToFixed(top, 3)>>
                /\ Len(f) >= Len(cap)
                /\ \A j \in 1 .. Len(cap) :
                      /\ f[j].a = cap[j]
                      /\ \A k \in 1 .. 3 :
                            IF IsStructure(zone)
                            THEN f[j].a[k] \in (b + len) .. (b + 2 * len - 1)
                            ELSE f[j].a[k] \in b .. (b + len - 1)
                \* no other face has its three indices in one ring
                /\ \A j \in (Len(cap) + 1) .. Len(f) :
                      /\ \E k \in 1 .. 3 : f[j].a[k] \in b .. (b + len - 1)
                      /\ \E k \in 1 .. 3 : f[j].a[k] \in (b + len) .. (b + 2 * len - 1)
                /\ ~IsStructure(zone) => Len(f) = Len(cap)

\* a returned mesh with a Water zone and a Structure zone, each with a cap
C22_Witness ==
    /\ pc = "obj_done"
    /\ \E i, j \in ExportedZones :
          /\ scene.zones[i].type = "WATER"
          /\ IsStructure(scene.zones[j])
          /\ Len(ElementLines("f", <<"zone", i - 1>>)) >= 1
          /\ Len(ElementLines("f", <<"zone", j - 1>>)) > 2 * Len(scene.zones[j].points)

---------------------------------------------------------------------------
(* The walls of a Structure zone, checked under SpecExport.                *)

\* the faces of an element that are not cap faces
FacesAfterCap(el, pts) ==
    LET f == ElementLines("f", el)
        caps == Len(TriangulatePolygon(pts)) \div 3
    IN  [j \in 1 .. (Len(f) - caps) |-> f[caps + j].a]

\* C23: a Structure zone with len >= 3 points has exactly 2 x len wall
\* triangles, for every i in 0 .. len-1 the pair (b_i, b_next, t_next) and
\* (b_i, t_next, t_i) with next = (i + 1) mod len, in the order of i, where
\* b_i and t_i are the indices of the bottom-ring and top-ring vertices of
\* point i; a zone of another type has no wall face.
C23_Walls ==
    pc = "obj_done" =>
        \A z \in ExportedZones :
            LET zone == scene.zones[z]
                el == <<"zone", z - 1>>
                len == Len(zone.points)
                walls == FacesAfterCap(el, zone.points)
                v == ElementLines("v", el)
                first == FirstVertexOf(el)
                b(i) == first + i
                t(i) == first + len + i
            IN  IF IsStructure(zone)
                THEN /\ Len(walls) = 2 * len
                     /\ \A i \in 0 .. (len - 1) :
                           LET next == (i + 1) % len
                           IN  /\ walls[2 * i + 1] = <<b(i), b(next), t(next)>>
                               /\ walls[2 * i + 2] = <<b(i), t(next), t(i)>>
                               \* t_i is the vertex above b_i
                               /\ v[len + i + 1].a[1] = v[i + 1].a[1]
                               /\ v[len + i + 1].a[2] = v[i + 1].a[2]
                               /\ v[len + i + 1].a[3] # v[i + 1].a[3]
                     \* the last edge joins the last vertex to the first
                     /\ walls[2 * len - 1] = <<b(len - 1), b(0), t(0)>>
                ELSE walls = <<>>

\* a returned mesh with a Structure zone of MaxPts points and its 2 x MaxPts
\* wall faces, and a zone of another type
C23_Witness ==
    /\ pc = "obj_done"
    /\ \E i, j \in ExportedZones :
          /\ IsStructure(scene.zones[i])
          /\ Len(scene.zones[i].points) = MaxPts
          /\ Len(FacesAfterCap(<<"zone", i - 1>>, scene.zones[i].points)) = 2 * MaxPts
          /\ ~IsStructure(scene.zones[j])

---------------------------------------------------------------------------
(* The order of the mesh's elements and of their vertices, checked under   *)
(* SpecExport.                                                             *)

\* the place of an element in the order ground, zones, roads, markers
ElementRank(el) ==
    CASE el[1] = "doc" -> 0
      [] el[1] = "ground" -> 1
      [] el[1] = "zone" -> 2 + el[2]
      [] el[1] = "roads" -> 2 + Len(scene.zones)
      [] el[1] = "road" -> 3 + Len(scene.zones) + el[2]
      [] el[1] = "elevations" -> 3 + Len(scene.zones) + Len(scene.roads)
      [] el[1] = "elev" -> 4 + Len(scene.zones) + Len(scene.roads) + el[2]

\* the indices of the vertices that an element emitted
IndexRange(el) ==
    LET lines == VertexLines
    IN  {n \in 1 .. Len(lines) : lines[n].el = el}

\* the elements that have emitted a vertex
VertexElements ==
    LET lines == VertexLines
    IN  {lines[n].el : n \in 1 .. Len(lines)}

\* the x and y text of a vertex line are those of a point
IsVertexOf(ln, p) ==
    ln.a[1] = ToFixed(WorldX(p), 3) /\ ln.a[2] = ToFixed(WorldY(p), 3)

\* the j-th vertex of each ring of an element is the j-th point
FollowsPoints(el, pts) ==
    LET v == ElementLines("v", el)
    IN  /\ Len(v) \in {Len(pts), 2 * Len(pts)}
        /\ \A j \in 1 .. Len(v) : IsVertexOf(v[j], pts[((j - 1) % Len(pts)) + 1])

ElementsInOrder ==
    InObj =>
        \* ground, zones, roads and markers, each kind in input order
        /\ \A p \in 1 .. (Len(out) - 1) :
              ElementRank(out[p].el) <= ElementRank(out[p + 1].el)
        \* the counter is the next free index
        /\ vCount = 1 + Len(VertexLines)
        \* an element's range is contiguous and starts right after the
        \* range of the element before it
        /\ \A el \in VertexElements :
              LET first == FirstVertexOf(el)
                  range == IndexRange(el)
              IN  /\ range = first .. (first + Cardinality(range) - 1)
                  /\ first = 1 \/ ElementRank(VertexLines[first - 1].el) < ElementRank(el)
        /\ \A e1, e2 \in VertexElements :
              e1 # e2 => IndexRange(e1) \cap IndexRange(e2) = {}
        \* inside an element the vertices follow the input point order
        /\ FollowsPoints(<<"ground", 0>>, scene.boundary)
        /\ \A el \in VertexElements :
              /\ el[1] = "zone" => FollowsPoints(el, At(scene.zones, el[2]).points)
              /\ el[1] = "road" => FollowsPoints(el, At(scene.roads, el[2]).points)
              /\ el[1] = "elev" =>
                    IsVertexOf(ElementLines("v", el)[1], At(scene.elevations, el[2]))

\* C24: the mesh's elements come in the order ground, zones in input order,
\* roads in input order, markers in input order; the vertex counter never
\* decreases and the text only grows; each element's vertices have a
\* contiguous index range that starts right after the previous element's, no
\* two elements share an index, and an element's vertices follow its points.
C24_ElementOrder ==
    /\ [](ElementsInOrder)
    /\ [][(InObj /\ pc' # "obj_threw") =>
            /\ vCount' >= vCount
            /\ Len(out') >= Len(out)
            /\ SubSeq(out', 1, Len(out)) = out]_vars

\* a returned mesh of a boundary, two zones of which one is a Structure, or
\* a zone and a road, each with its vertices
C24_Witness ==
    /\ pc = "obj_done"
    /\ Len(scene.boundary) >= 3
    /\ Cardinality(VertexElements) >= 3
    /\ \E el \in VertexElements : el[1] = "zone" /\ Cardinality(IndexRange(el)) = 2 * MaxPts

---------------------------------------------------------------------------
(* The entities of the drawing and their order, checked under SpecExport.  *)

\* the positions, in order, of the pairs that start an entity of the
\* ENTITIES section
EntityPositions ==
    LET start == SectionAt("ENTITIES")
    IN  SelectSeq([p \in 1 .. Len(out) |-> p],
                  LAMBDA p : /\ p > start
                             /\ out[p].c = "0"
                             /\ out[p].v \notin {"ENDSEC", "EOF"})

\* the value under a code in the entity that starts at p and ends before
\* e, "-" if the entity has no such pair
ValueIn(p, e, code) ==
    LET at == {q \in (p + 1) .. (e - 1) : out[q].c = code}
    IN  IF at = {} THEN "-" ELSE out[CHOOSE q \in at : TRUE].v

\* the entities in order, each as its kind, its layer, its closed flag, its
\* text and the scene element it belongs to
Entities ==
    LET at == EntityPositions
        End(n) == IF n < Len(at) THEN at[n + 1] ELSE Len(out) - 1
    IN  [n \in 1 .. Len(at) |->
            <<out[at[n]].v,
              ValueIn(at[n], End(n), "8"),
              ValueIn(at[n], End(n), "70"),
              out[at[n]].el,
              ValueIn(at[n], End(n), "1")>>]

\* an entity without its text
Described(e) == <<e[1], e[2], e[3], e[4]>>

RECURSIVE ExpectedRoadEntities(_)
ExpectedRoadEntities(i) ==
    IF i > Len(scene.roads) THEN <<>>
    ELSE (IF Len(scene.roads[i].points) >= 2
          THEN <<(<<"LWPOLYLINE", "ROADS_CENTERLINE", "0", <<"road", i - 1>>>>)>>
          ELSE <<>>)
         \o ExpectedRoadEntities(i + 1)

RECURSIVE ExpectedZoneEntities(_)
ExpectedZoneEntities(i) ==
    IF i > Len(scene.zones) THEN <<>>
    ELSE (IF Len(scene.zones[i].points) >= 3
          THEN <<(<<"LWPOLYLINE", "FUNCTION_ZONES", "1", <<"zone", i - 1>>>>),
                 (<<"TEXT", "TEXT", "-", <<"zone", i - 1>>>>)>>
          ELSE <<>>)
         \o ExpectedZoneEntities(i + 1)

RECURSIVE ExpectedMarkerEntities(_)
ExpectedMarkerEntities(i) ==
    IF i > Len(scene.elevations) THEN <<>>
    ELSE <<(<<"POINT", "ELEVATIONS", "-", <<"elev", i - 1>>>>),
           (<<"TEXT", "TEXT", "-", <<"elev", i - 1>>>>)>>
         \o ExpectedMarkerEntities(i + 1)

ExpectedEntities ==
    (IF Len(scene.boundary) > 0
     THEN <<(<<"LWPOLYLINE", "SITE_BOUNDARY", "1", <<"boundary", 0>>>>)>> ELSE <<>>)
    \o ExpectedRoadEntities(1)
    \o ExpectedZoneEntities(1)
    \o ExpectedMarkerEntities(1)
    \o (IF Len(scene.boundary) > 2
        THEN <<(<<"TEXT", "ANNOTATIONS", "-", <<"area", 0>>>>)>> ELSE <<>>)

---------------------------------------------------------------------------
(* The number of passes of triangulatePolygon, checked under SpecTri.      *)

\* max(0, n - k) for an input of n points
AtMost(k) == Max(0, Len(points) - k)

\* C26: for an input of n points the outer loop runs at most max(0, n - 3)
\* passes, every pass that does not exit removing one index; when the loop
\* condition fails, 3 or fewer indices are left (the cap of 3 x n passes is
\* not what ends the loop); at most max(0, n - 2) triangles are returned.
C26_PassBound ==
    /\ iterations <= AtMost(3)
    /\ triPc = "loop" => Len(indices) = Len(points) - iterations
    /\ triPc = "done" => Len(indices) \in {Len(points) - iterations,
                                           Len(points) - iterations + 1}
    /\ (triPc = "loop" /\ ~LoopCond(points, indices, iterations)) => Len(indices) <= 3
    /\ Len(indices) > 3 => iterations < MaxIterations(points)
    /\ Len(triangles) % 3 = 0
    /\ Len(triangles) \div 3 <= AtMost(2)

\* a call on MaxN points that has returned after MaxN - 3 passes with
\* MaxN - 2 triangles
C26_Witness ==
    /\ triPc = "done"
    /\ Len(points) = MaxN
    /\ iterations = MaxN - 3
    /\ Len(triangles) = 3 * (MaxN - 2)

---------------------------------------------------------------------------
(* The triangles of a polygon with a reflex vertex, checked under SpecTri. *)

\* C27 as stated: for every simple non-convex polygon, in either winding
\* and from any starting vertex, the areas of the returned triangles sum to
\* calculatePolygonArea of the polygon (no reflex vertex is clipped as an
\* ear, no triangle lies outside the polygon).
C27_AreaSum ==
    (triPc = "done" /\ IsSimplePolygon(points) /\ ~IsConvexPolygon(points)) =>
        TriangleAreaSum2(points, triangles, 1) = CalculatePolygonArea2(points)

---------------------------------------------------------------------------
(* DrawingCanvas: the component's state and its event handlers, one        *)
(* handler call per step.  A point is its id and its position; gen is a    *)
(* ghost field, the number of confirmed resets before the click that made  *)
(* the point.  canvas.clicks, canvas.made and canvas.resets are ghost      *)
(* counters (ids drawn for points, ids drawn for roads and zones, resets). *)

\* the most svg clicks and the most confirmed resets of a run
MaxClicks == 4

MaxResets == 1

Null == "null"

\* where the mouse can be: a click falls on the first spot, a held point
\* can be moved to either
Spots == {<<0, 0>>, <<1, 1>>}

ClickSpots == {<<0, 0>>}

ToolModes == {"BOUNDARY", "EDIT", "ROAD", "ZONE", "ELEVATION"}

\* const newPoint = { x, y, id: Math.random()... }: a fresh id, a string
NewPoint(spot) ==
    [id |-> ToString(canvas.clicks + 1), x |-> spot[1], y |-> spot[2], gen |-> canvas.resets]

\* the useState initial values
InitCanvas ==
    /\ canvas = [boundary |-> <<>>, roads |-> <<>>, zones |-> <<>>, elevations |-> <<>>,
                 isClosed |-> FALSE,
                 draggingId |-> Null, draggingType |-> Null, draggingObjId |-> Null,
                 mode |-> "BOUNDARY",
                 currentRoadPoints |-> <<>>, currentZonePoints |-> <<>>,
                 activeZoneType |-> "GREENERY",
                 clicks |-> 0, made |-> 0, resets |-> 0]
    /\ app = <<>>
    /\ threw = FALSE
    /\ TriOff
    /\ ExportOff

CanvasOnly == UNCHANGED <<triVars, expVars, threw, app>>

\* handleSvgClick: a mouse down on the svg that no point handler stopped;
\* valid tells whether the text typed into the prompt parses as a number
HandleSvgClick ==
    /\ canvas.clicks < MaxClicks
    /\ \E spot \in ClickSpots, valid \in BOOLEAN :
          LET newPoint == NewPoint(spot)
          IN  canvas' =
                IF canvas.mode = "BOUNDARY" /\ ~canvas.isClosed
                THEN [canvas EXCEPT !.boundary = Append(@, newPoint), !.clicks = @ + 1]
                ELSE IF canvas.mode = "ROAD"
                THEN [canvas EXCEPT !.currentRoadPoints = Append(@, newPoint),
                                    !.clicks = @ + 1]
                ELSE IF canvas.mode = "ZONE"
                THEN [canvas EXCEPT !.currentZonePoints = Append(@, newPoint),
                                    !.clicks = @ + 1]
                ELSE IF canvas.mode = "ELEVATION" /\ canvas.isClosed /\ valid
                THEN [canvas EXCEPT !.elevations = Append(@, newPoint), !.clicks = @ + 1]
                ELSE [canvas EXCEPT !.clicks = @ + 1]
    /\ CanvasOnly

\* if (currentRoadPoints.length > 1)
RoadIsLongEnough(pts) == Len(pts) > 1

\* if (currentZonePoints.length > 1): two points make a zone
ZoneIsLargeEnoughAbove1(pts) == Len(pts) > 1

\* if (currentZonePoints.length > 2)
ZoneIsLargeEnough(pts) == Len(pts) > 2

\* finishRoad, the click handler of the square drawn at the last point of
\* the road in progress (drawn when mode === 'ROAD' and there is a point)
FinishRoad ==
    /\ canvas.mode = "ROAD"
    /\ Len(canvas.currentRoadPoints) > 0
    /\ canvas' =
         IF RoadIsLongEnough(canvas.currentRoadPoints)
         THEN [canvas EXCEPT
                 !.roads = Append(@, [id |-> ToString(canvas.made + 1),
                                      points |-> canvas.currentRoadPoints, width |-> 2]),
                 !.made = @ + 1,
                 !.currentRoadPoints = <<>>]
         ELSE [canvas EXCEPT !.currentRoadPoints = <<>>]
    /\ CanvasOnly

\* finishZone, the mouse-down handler of the circle drawn at the first point
\* of the zone in progress (drawn when mode === 'ZONE' and there is a point)
FinishZone ==
    /\ canvas.mode = "ZONE"
    /\ Len(canvas.currentZonePoints) > 0
    /\ canvas' =
         IF ZoneIsLargeEnough(canvas.currentZonePoints)
         THEN [canvas EXCEPT
                 !.zones = Append(@, [id |-> ToString(canvas.made + 1),
                                      points |-> canvas.currentZonePoints,
                                      type |-> canvas.activeZoneType]),
                 !.made = @ + 1,
                 !.currentZonePoints = <<>>]
         ELSE [canvas EXCEPT !.currentZonePoints = <<>>]
    /\ CanvasOnly

\* prev.filter(o => o.id !== objId)
WithoutObject(objs, objId) == SelectSeq(objs, LAMBDA o : o.id # objId)

\* the circles that take a mouse down: the boundary's points in every mode,
\* the points of the roads and zones in mode EDIT; each with its handler's
\* arguments (id, type, objId)
PointHandles ==
    {[id |-> canvas.boundary[i].id, type |-> "boundary", objId |-> Null] :
        i \in 1 .. Len(canvas.boundary)}
    \cup (IF canvas.mode # "EDIT" THEN {}
          ELSE {[id |-> canvas.roads[r].points[i].id, type |-> "road",
                 objId |-> canvas.roads[r].id] :
                    <<r, i>> \in {ri \in (1 .. Len(canvas.roads)) \X (1 .. MaxClicks) :
                                     ri[2] <= Len(canvas.roads[ri[1]].points)}}
               \cup
               {[id |-> canvas.zones[z].points[i].id, type |-> "zone",
                 objId |-> canvas.zones[z].id] :
                    <<z, i>> \in {zi \in (1 .. Len(canvas.zones)) \X (1 .. MaxClicks) :
                                     zi[2] <= Len(canvas.zones[zi[1]].points)}})

\* boundary.length >= 3
CanClose(c) == Len(c.boundary) >= 3

\* handlePointMouseDown(e, id, type, objId); modifier is e.altKey || e.shiftKey
HandlePointMouseDown ==
    /\ \E h \in PointHandles, modifier \in BOOLEAN :
          canvas' =
            IF modifier
            THEN IF h.type = "road" /\ h.objId # Null
                 THEN [canvas EXCEPT !.roads = WithoutObject(@, h.objId)]
                 ELSE IF h.type = "zone" /\ h.objId # Null
                 THEN [canvas EXCEPT !.zones = WithoutObject(@, h.objId)]
                 ELSE canvas
            ELSE IF /\ h.type = "boundary"
                    /\ ~canvas.isClosed
                    /\ CanClose(canvas)
                    /\ h.id = canvas.boundary[1].id
            THEN [canvas EXCEPT !.isClosed = TRUE, !.mode = "EDIT"]
            ELSE IF canvas.mode = "EDIT"
            THEN [canvas EXCEPT !.draggingId = h.id, !.draggingType = h.type,
                                !.draggingObjId = IF h.objId # Null THEN h.objId ELSE @]
            ELSE canvas
    /\ CanvasOnly

\* points.map(p => p.id === draggingId ? { ...p, x, y } : p)
MovePoint(pts, id, spot) ==
    [i \in 1 .. Len(pts) |->
        IF pts[i].id = id THEN [pts[i] EXCEPT !.x = spot[1], !.y = spot[2]] ELSE pts[i]]

\* objs.map(o => o.id === objId ? { ...o, points: moved } : o)
MoveInObject(objs, objId, id, spot) ==
    [k \in 1 .. Len(objs) |->
        IF objs[k].id = objId
        THEN [objs[k] EXCEPT !.points = MovePoint(@, id, spot)]
        ELSE objs[k]]

\* handleMouseMove while a point is held
HandleMouseMove ==
    /\ canvas.draggingId # Null
    /\ canvas.mode = "EDIT"
    /\ \E spot \in Spots :
          canvas' =
            IF canvas.draggingType = "boundary"
            THEN [canvas EXCEPT !.boundary = MovePoint(@, canvas.draggingId, spot)]
            ELSE IF canvas.draggingType = "road" /\ canvas.draggingObjId # Null
            THEN [canvas EXCEPT
                    !.roads = MoveInObject(@, canvas.draggingObjId, canvas.draggingId, spot)]
            ELSE IF canvas.draggingType = "zone" /\ canvas.draggingObjId # Null
            THEN [canvas EXCEPT
                    !.zones = MoveInObject(@, canvas.draggingObjId, canvas.draggingId, spot)]
            ELSE canvas
    /\ CanvasOnly

\* handleMouseUp (mouse up or mouse leave) while a point is held
HandleMouseUp ==
    /\ canvas.draggingId # Null
    /\ canvas' = [canvas EXCEPT !.draggingId = Null, !.draggingType = Null,
                                !.draggingObjId = Null]
    /\ CanvasOnly

\* the six setters of a confirmed resetCanvas (the base map is not modelled)
ResetState(c) ==
    [c EXCEPT !.boundary = <<>>, !.roads = <<>>, !.zones = <<>>, !.elevations = <<>>,
              !.isClosed = FALSE, !.mode = "BOUNDARY",
              !.resets = @ + 1]

\* resetCanvas, the user confirming
ResetCanvas ==
    /\ canvas.resets < MaxResets
    /\ canvas' = ResetState(canvas)
    /\ CanvasOnly

\* the tool buttons; a press that changes nothing is not a step

\* the boundary tool button: setMode(isClosed ? 'EDIT' : 'BOUNDARY')
BoundaryButton ==
    /\ canvas' = [canvas EXCEPT !.mode = IF canvas.isClosed THEN "EDIT" ELSE "BOUNDARY"]
    /\ canvas' # canvas
    /\ CanvasOnly

\* the road tool button
RoadButton ==
    /\ canvas' = [canvas EXCEPT !.mode = "ROAD", !.currentRoadPoints = <<>>,
                                !.currentZonePoints = <<>>]
    /\ canvas' # canvas
    /\ CanvasOnly

\* the zone tool button
ZoneButton ==
    /\ canvas' = [canvas EXCEPT !.mode = "ZONE", !.currentRoadPoints = <<>>,
                                !.currentZonePoints = <<>>]
    /\ canvas' # canvas
    /\ CanvasOnly

\* a button of the zone-type submenu
ZoneTypeButton ==
    /\ \E t \in ZoneTypes :
          canvas' = [canvas EXCEPT !.mode = "ZONE", !.activeZoneType = t]
    /\ canvas' # canvas
    /\ CanvasOnly

\* the elevation tool button
ElevationButton ==
    /\ canvas' = [canvas EXCEPT !.mode = "ELEVATION"]
    /\ canvas' # canvas
    /\ CanvasOnly

NextCanvas ==
    \/ HandleSvgClick
    \/ FinishRoad
    \/ FinishZone
    \/ HandlePointMouseDown
    \/ HandleMouseMove
    \/ HandleMouseUp
    \/ ResetCanvas
    \/ BoundaryButton
    \/ RoadButton
    \/ ZoneButton
    \/ ZoneTypeButton
    \/ ElevationButton

SpecCanvas == InitCanvas /\ [][NextCanvas]_vars


---------------------------------------------------------------------------
(* Properties of the drawing surface, checked under SpecCanvas.            *)

\* C28: after any sequence of DrawingCanvas actions every committed road
\* has at least 2 points, every committed zone has at least 3 points, and
\* the boundary is marked closed only while it has at least 3 points.
C28_CommittedSizes ==
    /\ \A r \in 1 .. Len(canvas.roads) : Len(canvas.roads[r].points) >= 2
    /\ \A z \in 1 .. Len(canvas.zones) : Len(canvas.zones[z].points) >= 3
    /\ canvas.isClosed => Len(canvas.boundary) >= 3

\* a committed road of 2 points, and a zone in progress that has 2 points
C28_Witness ==
    /\ Len(canvas.roads) = 1
    /\ Len(canvas.roads[1].points) = 2
    /\ canvas.mode = "ZONE"
    /\ Len(canvas.currentZonePoints) = 2

\* C30 as stated: after a confirmed resetCanvas every committed road and
\* zone consists only of points clicked after that reset (the roads and
\* zones committed before it are gone).
C30_OnlyPointsAfterReset ==
    /\ \A r \in 1 .. Len(canvas.roads) : \A i \in 1 .. Len(canvas.roads[r].points) :
          canvas.roads[r].points[i].gen = canvas.resets
    /\ \A z \in 1 .. Len(canvas.zones) : \A i \in 1 .. Len(canvas.zones[z].points) :
          canvas.zones[z].points[i].gen = canvas.resets


---------------------------------------------------------------------------
(* App: the component's state, the generation request and the analysis     *)
(* requests in flight, one handler call or one settled promise per step.   *)
(* An image is named after the request that produced it; an analysis image *)
(* carries the master image that its request was given.  app.generated and *)
(* app.analysed are ghost counters of the requests started.                *)

\* the most generation requests and analysis requests of a run
MaxGenerations == 2

MaxAnalyses == 2

\* null
None == <<>>

\* the useState initial values, nothing in flight
InitApp ==
    /\ app = [sketchImage |-> None,
              results |-> [master |-> None, function |-> None, description |-> None],
              stats |-> None,
              isGenerating |-> FALSE, isAnalyzing |-> FALSE, error |-> None,
              generation |-> None, analyses |-> {},
              generated |-> 0, analysed |-> 0]
    /\ canvas = <<>>
    /\ threw = FALSE
    /\ TriOff
    /\ ExportOff

AppOnly == UNCHANGED <<triVars, expVars, threw, canvas>>

\* handleSketchUpdate: the drawing surface hands over its image, or null
HandleSketchUpdate ==
    /\ \E imageData \in {None, <<"sketch">>} :
          /\ imageData # app.sketchImage
          /\ app' = [app EXCEPT !.sketchImage = imageData]
    /\ AppOnly

\* handleGenerate up to its first await; the button is disabled while
\* isGenerating || !canGenerate
HandleGenerate ==
    /\ ~app.isGenerating
    /\ app.sketchImage # None
    /\ app.generated < MaxGenerations
    /\ app' = [app EXCEPT
                 !.isGenerating = TRUE,
                 !.error = None,
                 !.stats = None,
                 !.results = [master |-> None, function |-> None, description |-> None],
                 !.generation = <<"generation", app.generated + 1>>,
                 !.generated = @ + 1]
    /\ AppOnly

\* the three awaited calls of handleGenerate have resolved
GenerateResolves ==
    /\ app.generation # None
    /\ app' = [app EXCEPT
                 !.results = [@ EXCEPT !.master = <<"master", app.generation[2]>>,
                                       !.description = <<"description", app.generation[2]>>],
                 !.stats = <<"stats", app.generation[2]>>,
                 !.isGenerating = FALSE,
                 !.generation = None]
    /\ AppOnly

\* one of the awaited calls of handleGenerate has rejected
GenerateRejects ==
    /\ app.generation # None
    /\ app' = [app EXCEPT !.error = <<"error">>, !.isGenerating = FALSE,
                          !.generation = None]
    /\ AppOnly

\* setResults(prev => ({ ...prev, function: analysisImage }))
StoreAnalysis(results, request) ==
    [results EXCEPT !.function = <<"analysis", request.master>>]

\* the function tab of ResultViewer (disabled while there is no master):
\* if (results.master && !results.function) onGenerateAnalysis(...), and
\* handleGenerateAnalysis up to its await
FunctionTabClick ==
    /\ app.results.master # None
    /\ app.results.function = None
    /\ app.analysed < MaxAnalyses
    /\ app' = [app EXCEPT
                 !.isAnalyzing = TRUE,
                 !.analyses = @ \cup {[id |-> app.analysed + 1,
                                       master |-> app.results.master]},
                 !.analysed = @ + 1]
    /\ AppOnly

\* generateAnalysisMap has resolved
AnalysisResolves ==
    /\ \E request \in app.analyses :
          app' = [app EXCEPT !.results = StoreAnalysis(@, request),
                             !.isAnalyzing = FALSE,
                             !.analyses = @ \ {request}]
    /\ AppOnly

\* generateAnalysisMap has rejected
AnalysisRejects ==
    /\ \E request \in app.analyses :
          app' = [app EXCEPT !.error = <<"error">>,
                             !.isAnalyzing = FALSE,
                             !.analyses = @ \ {request}]
    /\ AppOnly

\* the close button of the error banner: setError(null)
DismissError ==
    /\ app.error # None
    /\ app' = [app EXCEPT !.error = None]
    /\ AppOnly

NextApp ==
    \/ HandleSketchUpdate
    \/ HandleGenerate
    \/ GenerateResolves
    \/ GenerateRejects
    \/ FunctionTabClick
    \/ AnalysisResolves
    \/ AnalysisRejects
    \/ DismissError

SpecApp == InitApp /\ [][NextApp]_vars

---------------------------------------------------------------------------
(* The analysis image and its master, checked under SpecApp.               *)

\* C29 as stated: whenever results.function is not null it was produced
\* from the master image now in results.master; an analysis request started
\* for an earlier master never leaves its image in results.function.
C29_FunctionOfCurrentMaster ==
    app.results.function # None =>
        /\ app.results.master # None
        /\ app.results.function = <<"analysis", app.results.master>>

===========================================================================
